---- MODULE Spec2Model ----
(***************************************************************************)
(* Record repository of the album review tool (src/src/utils/export.ts,    *)
(* the storage half of the file): three localStorage collections keyed by  *)
(* albumId (albums_data, review_status, album_meta) and the operations     *)
(* importAlbums, updateAlbumReviewStatus, batchUpdateReviewStatus,         *)
(* deleteAlbums and clearAllData, with the operation log (addOperationLog), *)
(* the review navigator of pages/ImportPage.tsx and the CSV import handler, *)
(* the export (exportReviewResults) and the state of the two pages         *)
(* ReviewPage and OverviewPage with their handlers.                        *)
(*                                                                         *)
(* An optional field (TypeScript `x?: T`, value undefined when absent) is  *)
(* a set: {} when absent, {v} when present.  `a ?? b` is Coalesce(a, b).   *)
(* A Record<string, T> is a function whose DOMAIN is its key set.          *)
(***************************************************************************)
EXTENDS Integers, Sequences, FiniteSets, TLC

VARIABLES albums, reviewStatus, albumMeta, logs, now, prev, last,
          page, reviewPage, overviewPage

vars == <<albums, reviewStatus, albumMeta, logs, now, prev, last,
          page, reviewPage, overviewPage>>

\* the route and the state of the mounted page component
ui == <<page, reviewPage, overviewPage>>

----------------------------------------------------------------------------
(* Bounds of the model *)

\* longest import batch / id list handed to an operation
MaxBatchLen == 2
\* the clock (new Date()) runs over 0..MaxTime
MaxTime == 1

----------------------------------------------------------------------------
(* Values *)

\* '已抽卡'
Reviewed == "Reviewed"
\* '未抽卡'
Unreviewed == "Unreviewed"
\* '抽卡不通过', the rejected sentinel stored in selectedImageLink
RejectedLink == "Rejected"

\* album identifiers the callers use
Ids == {"a1", "a2"}

\* Album (types/index.ts): the row of identifier id with content v
Album(id, v) ==
  [albumId |-> id,
   albumName |-> "name-" \o v,
   bookName |-> "book-" \o v,
   category |-> "category-" \o v,
   image1 |-> "image1-" \o v,
   image2 |-> "image2-" \o v,
   image3 |-> "image3-" \o v,
   image4 |-> "image4-" \o v]

\* the rows an incoming CSV batch is made of: two contents for "a1", one for "a2"
AlbumRows == {Album("a1", "x"), Album("a1", "y"), Album("a2", "x")}

\* sequences over S of length 0..n
RECURSIVE SeqsUpTo(_, _)
SeqsUpTo(S, n) ==
  IF n = 0 THEN {<<>>}
  ELSE LET shorter == SeqsUpTo(S, n - 1)
       IN shorter \cup {Append(s, x) : s \in {t \in shorter : Len(t) = n - 1}, x \in S}

\* the empty Record<string, T>
EmptyRecord == [id \in {} |-> {}]

\* b ?? a in place of a ?? b: the fallback is preferred to the given value
CoalesceSwapped(a, b) == IF b # {} THEN b ELSE a

\* a ?? b on optional values
Coalesce(a, b) == IF a # {} THEN a ELSE b

\* the value of a present optional
The(a) == CHOOSE v \in a : TRUE

----------------------------------------------------------------------------
(* Reads *)

\* getAllAlbums().find(a => a.albumId === albumId): {} when not found
FindAlbum(as, albumId) ==
  IF \E i \in 1..Len(as) : as[i].albumId = albumId
  THEN {as[CHOOSE i \in 1..Len(as) :
              /\ as[i].albumId = albumId
              /\ \A j \in 1..(i - 1) : as[j].albumId # albumId]}
  ELSE {}

\* allStatus[albumId]: {} when there is no row
StatusOf(allStatus, albumId) ==
  IF albumId \in DOMAIN allStatus THEN {allStatus[albumId]} ELSE {}

\* status && status.reviewStatus === '已抽卡'
IsReviewed(allStatus, albumId) ==
  /\ albumId \in DOMAIN allStatus
  /\ allStatus[albumId].reviewStatus = Reviewed

AlbumIdsOf(as) == {as[i].albumId : i \in 1..Len(as)}

\* record[key] = value
RecordSet(rec, key, value) ==
  [k \in DOMAIN rec \cup {key} |-> IF k = key THEN value ELSE rec[k]]

\* the entries of rec whose key satisfies keep
RecordFilter(rec, keep) == [k \in DOMAIN rec \cap keep |-> rec[k]]

----------------------------------------------------------------------------
(* Store snapshot used to remember the contents before the last operation *)

Store == [albums |-> albums, reviewStatus |-> reviewStatus, albumMeta |-> albumMeta]

\* useState initial values of ReviewPage
ReviewPageInitial ==
  [album |-> {}, reviewStatus |-> {}, selectedImageIndex |-> {},
   imageLoadStatus |-> <<>>, showRejectModal |-> FALSE, timers |-> {}, imgPending |-> {}]

\* the filter '全部' with no search text and no dates; the search text is a
\* sequence of characters and a date is an optional day
NoFilter == [reviewStatus |-> "All", searchText |-> <<>>, startDate |-> {}, endDate |-> {}]

\* useState initial values of OverviewPage
OverviewPageInitial ==
  [albums |-> <<>>, reviewStatus |-> EmptyRecord, albumMeta |-> EmptyRecord,
   selectedIds |-> {}, filter |-> NoFilter, currentPage |-> 1, pageSize |-> 20,
   showBatchModal |-> FALSE, showDeleteModal |-> FALSE]

\* the import page is shown and no other page component is mounted
OnImportPage ==
  /\ page = [name |-> "import", albumId |-> {}]
  /\ reviewPage = ReviewPageInitial
  /\ overviewPage = OverviewPageInitial

Init ==
  /\ OnImportPage
  /\ albums = <<>>
  /\ reviewStatus = EmptyRecord
  /\ albumMeta = EmptyRecord
  /\ logs = <<>>
  /\ now = 0
  /\ prev = [albums |-> <<>>, reviewStatus |-> EmptyRecord, albumMeta |-> EmptyRecord]
  /\ last = [op |-> "init"]

\* time passes between two events
Tick ==
  /\ now < MaxTime
  /\ now' = now + 1
  /\ UNCHANGED <<albums, reviewStatus, albumMeta, logs, prev, last, ui>>

----------------------------------------------------------------------------
(* importAlbums *)

\* a map that keeps the first value of a key
MapSetKeepFirst(albumMap, album) ==
  IF \E i \in 1..Len(albumMap) : albumMap[i].albumId = album.albumId
  THEN albumMap
  ELSE Append(albumMap, album)

\* an array push in place of the map: a known key is added once more
MapSetAppend(albumMap, album) == Append(albumMap, album)

\* Map.set(album.albumId, album): a known key keeps its place and takes the
\* new value, a new key is added at the end
MapSet(albumMap, album) ==
  IF \E i \in 1..Len(albumMap) : albumMap[i].albumId = album.albumId
  THEN [i \in 1..Len(albumMap) |->
          IF albumMap[i].albumId = album.albumId THEN album ELSE albumMap[i]]
  ELSE Append(albumMap, album)

\* albumMap.has(albumId)
MapHas(albumMap, albumId) == \E i \in 1..Len(albumMap) : albumMap[i].albumId = albumId

\* the first forEach without the copy of the meta row
KeepIfReviewedNoMeta(acc, album, existingStatus, existingMeta) ==
  IF IsReviewed(existingStatus, album.albumId)
  THEN [albumMap |-> MapSet(acc.albumMap, album), metaToKeep |-> acc.metaToKeep]
  ELSE acc

\* one turn of the first forEach: a reviewed album is kept with its meta row
KeepIfReviewed(acc, album, existingStatus, existingMeta) ==
  IF IsReviewed(existingStatus, album.albumId)
  THEN [albumMap |-> MapSet(acc.albumMap, album),
        metaToKeep |-> IF album.albumId \in DOMAIN existingMeta
                       THEN RecordSet(acc.metaToKeep, album.albumId, existingMeta[album.albumId])
                       ELSE acc.metaToKeep]
  ELSE acc

\* the first forEach keeping every album, reviewed or not
RECURSIVE KeepEvery(_, _, _, _)
KeepEvery(acc, existingAlbums, existingStatus, existingMeta) ==
  IF existingAlbums = <<>> THEN acc
  ELSE KeepEvery([albumMap |-> MapSet(acc.albumMap, Head(existingAlbums)),
                  metaToKeep |-> IF Head(existingAlbums).albumId \in DOMAIN existingMeta
                                 THEN RecordSet(acc.metaToKeep, Head(existingAlbums).albumId,
                                                existingMeta[Head(existingAlbums).albumId])
                                 ELSE acc.metaToKeep],
                 Tail(existingAlbums), existingStatus, existingMeta)

\* existingAlbums.forEach(...): the reviewed albums and their meta rows
RECURSIVE KeepReviewed(_, _, _, _)
KeepReviewed(acc, existingAlbums, existingStatus, existingMeta) ==
  IF existingAlbums = <<>> THEN acc
  ELSE KeepReviewed(KeepIfReviewed(acc, Head(existingAlbums), existingStatus, existingMeta),
                    Tail(existingAlbums), existingStatus, existingMeta)

\* duplicates++ when albumMap.has(album.albumId)
CountDuplicate(albumMap, album, duplicates) ==
  IF MapHas(albumMap, album.albumId) THEN duplicates + 1 ELSE duplicates

\* newAlbums.forEach with the count taken after albumMap.set
ApplyIncomingCountAfter(acc, album, nowIso) ==
  [albumMap |-> MapSet(acc.albumMap, album),
   metaToKeep |-> RecordSet(acc.metaToKeep, album.albumId,
                            [albumId |-> album.albumId, importedAt |-> nowIso]),
   duplicates |-> CountDuplicate(MapSet(acc.albumMap, album), album, acc.duplicates)]

\* one turn of newAlbums.forEach
ApplyIncoming(acc, album, nowIso) ==
  [albumMap |-> MapSet(acc.albumMap, album),
   metaToKeep |-> RecordSet(acc.metaToKeep, album.albumId,
                            [albumId |-> album.albumId, importedAt |-> nowIso]),
   duplicates |-> CountDuplicate(acc.albumMap, album, acc.duplicates)]

\* newAlbums.forEach(...) walking the batch from its last row
RECURSIVE ApplyAllFromLast(_, _, _)
ApplyAllFromLast(acc, newAlbums, nowIso) ==
  IF newAlbums = <<>> THEN acc
  ELSE ApplyAllFromLast(ApplyIncoming(acc, newAlbums[Len(newAlbums)], nowIso),
                        SubSeq(newAlbums, 1, Len(newAlbums) - 1), nowIso)

\* newAlbums.forEach(...)
RECURSIVE ApplyAll(_, _, _)
ApplyAll(acc, newAlbums, nowIso) ==
  IF newAlbums = <<>> THEN acc
  ELSE ApplyAll(ApplyIncoming(acc, Head(newAlbums), nowIso), Tail(newAlbums), nowIso)

\* the merge computed by importAlbums before it writes
ImportMerge(newAlbums, existingAlbums, existingStatus, existingMeta, nowIso) ==
  LET kept == KeepReviewed([albumMap |-> <<>>, metaToKeep |-> EmptyRecord],
                           existingAlbums, existingStatus, existingMeta)
  IN ApplyAll([albumMap |-> kept.albumMap, metaToKeep |-> kept.metaToKeep, duplicates |-> 0],
              newAlbums, nowIso)

\* the status rows written back without the cleanup
StatusToKeepAll(existingStatus, albumIds) == existingStatus

\* statusToKeep: the status rows whose album survives
StatusToKeep(existingStatus, albumIds) == RecordFilter(existingStatus, albumIds)

\* metaCleaned: the meta rows whose album survives
MetaCleaned(metaToKeep, albumIds) == RecordFilter(metaToKeep, albumIds)

importAlbums(newAlbums) ==
  LET merged == ImportMerge(newAlbums, albums, reviewStatus, albumMeta, now)
      albumIds == AlbumIdsOf(merged.albumMap)
  IN /\ albums' = merged.albumMap
     /\ reviewStatus' = StatusToKeep(reviewStatus, albumIds)
     /\ albumMeta' = MetaCleaned(merged.metaToKeep, albumIds)
     /\ prev' = Store
     /\ last' = [op |-> "importAlbums", newAlbums |-> newAlbums, nowIso |-> now,
                 result |-> [imported |-> Len(newAlbums), duplicates |-> merged.duplicates]]
     /\ UNCHANGED <<now, logs, ui>>

ImportBatch == \E newAlbums \in SeqsUpTo(AlbumRows, MaxBatchLen) : importAlbums(newAlbums)

----------------------------------------------------------------------------
(* updateAlbumReviewStatus *)

\* the Partial<AlbumReviewStatus> written by executeConfirm for image index
AcceptPartial(album, index) ==
  [reviewProgress |-> {1},
   reviewStatus |-> {Reviewed},
   selectedImageIndex |-> {index},
   selectedImageLink |-> {<<album.image1, album.image2, album.image3, album.image4>>[index]}]

\* the Partial<AlbumReviewStatus> written by executeReject
RejectPartial ==
  [reviewProgress |-> {0},
   reviewStatus |-> {Reviewed},
   selectedImageIndex |-> {},
   selectedImageLink |-> {RejectedLink}]

\* the partial {} that gives no field
EmptyPartial ==
  [reviewProgress |-> {}, reviewStatus |-> {}, selectedImageIndex |-> {}, selectedImageLink |-> {}]

\* image slots the reviewer picks in the model
SelectableIndexes == {1}

\* the partials updateAlbumReviewStatus is called with for albumId
Partials(albumId) ==
  {EmptyPartial, RejectPartial}
    \cup {AcceptPartial(a, i) : a \in FindAlbum(albums, albumId), i \in SelectableIndexes}

\* existingStatus?.field as an optional
ExistingField(existingStatus, field) ==
  IF existingStatus = {} THEN {}
  ELSE IF field = "reviewProgress" THEN {The(existingStatus).reviewProgress}
  ELSE IF field = "reviewStatus" THEN {The(existingStatus).reviewStatus}
  ELSE IF field = "selectedImageIndex" THEN The(existingStatus).selectedImageIndex
  ELSE The(existingStatus).selectedImageLink

\* the row with the name fields carried over from the earlier status row
UpdatedRowStaleNames(albumId, album, status, existingStatus) ==
  [albumId |-> albumId,
   albumName |-> IF existingStatus = {} THEN album.albumName ELSE The(existingStatus).albumName,
   bookName |-> IF existingStatus = {} THEN album.bookName ELSE The(existingStatus).bookName,
   category |-> IF existingStatus = {} THEN album.category ELSE The(existingStatus).category,
   reviewProgress |->
     The(Coalesce(Coalesce(status.reviewProgress,
                           ExistingField(existingStatus, "reviewProgress")), {0})),
   reviewStatus |->
     The(Coalesce(Coalesce(status.reviewStatus,
                           ExistingField(existingStatus, "reviewStatus")), {Unreviewed})),
   selectedImageIndex |->
     Coalesce(status.selectedImageIndex, ExistingField(existingStatus, "selectedImageIndex")),
   selectedImageLink |->
     Coalesce(status.selectedImageLink, ExistingField(existingStatus, "selectedImageLink"))]

\* the row assigned to allStatus[albumId]
UpdatedRow(albumId, album, status, existingStatus) ==
  [albumId |-> albumId,
   albumName |-> album.albumName,
   bookName |-> album.bookName,
   category |-> album.category,
   reviewProgress |->
     The(Coalesce(Coalesce(status.reviewProgress,
                           ExistingField(existingStatus, "reviewProgress")), {0})),
   reviewStatus |->
     The(Coalesce(Coalesce(status.reviewStatus,
                           ExistingField(existingStatus, "reviewStatus")), {Unreviewed})),
   selectedImageIndex |->
     Coalesce(status.selectedImageIndex, ExistingField(existingStatus, "selectedImageIndex")),
   selectedImageLink |->
     Coalesce(status.selectedImageLink, ExistingField(existingStatus, "selectedImageLink"))]

\* if (!album) throw new Error('专辑不存在')
AlbumMissing(album) == album = {}

\* the status map with the row written before the album is looked at
StatusAfterUpdateWriteFirst(allStatus, albumId, status, album) ==
  IF AlbumMissing(album)
  THEN RecordSet(allStatus, albumId,
                 UpdatedRow(albumId, [albumName |-> "", bookName |-> "", category |-> ""],
                            status, StatusOf(allStatus, albumId)))
  ELSE RecordSet(allStatus, albumId,
                 UpdatedRow(albumId, The(album), status, StatusOf(allStatus, albumId)))

\* the status map saved by updateAlbumReviewStatus; nothing is saved when it throws
StatusAfterUpdate(allStatus, albumId, status, album) ==
  IF AlbumMissing(album)
  THEN allStatus
  ELSE RecordSet(allStatus, albumId,
                 UpdatedRow(albumId, The(album), status, StatusOf(allStatus, albumId)))

\* "Error" when the call throws
UpdateResult(album) == IF AlbumMissing(album) THEN "Error" ELSE "ok"

updateAlbumReviewStatus(albumId, status) ==
  LET allStatus == reviewStatus
      album == FindAlbum(albums, albumId)
  IN /\ reviewStatus' = StatusAfterUpdate(allStatus, albumId, status, album)
     /\ prev' = Store
     /\ last' = [op |-> "updateAlbumReviewStatus", albumId |-> albumId,
                 status |-> status, result |-> UpdateResult(album)]
     /\ UNCHANGED <<albums, albumMeta, now, logs, ui>>

UpdateStatus == \E albumId \in Ids : \E status \in Partials(albumId) :
                  updateAlbumReviewStatus(albumId, status)

----------------------------------------------------------------------------
(* batchUpdateReviewStatus *)

\* a batch row that selects the first image
RejectedRowSelecting(albumId, album) ==
  [albumId |-> albumId,
   albumName |-> album.albumName,
   bookName |-> album.bookName,
   category |-> album.category,
   reviewProgress |-> 0,
   reviewStatus |-> Reviewed,
   selectedImageIndex |-> {1},
   selectedImageLink |-> {RejectedLink}]

\* the row batchUpdateReviewStatus writes
RejectedRow(albumId, album) ==
  [albumId |-> albumId,
   albumName |-> album.albumName,
   bookName |-> album.bookName,
   category |-> album.category,
   reviewProgress |-> 0,
   reviewStatus |-> Reviewed,
   selectedImageIndex |-> {},
   selectedImageLink |-> {RejectedLink}]

\* the forEach turn without the skip of rows that are already Reviewed
RejectOneOverwrite(allStatus, albumId, storedAlbums) ==
  IF FindAlbum(storedAlbums, albumId) = {} THEN allStatus
  ELSE RecordSet(allStatus, albumId, RejectedRow(albumId, The(FindAlbum(storedAlbums, albumId))))

\* one turn of albumIds.forEach
RejectOne(allStatus, albumId, storedAlbums) ==
  IF IsReviewed(allStatus, albumId) THEN allStatus
  ELSE IF FindAlbum(storedAlbums, albumId) = {} THEN allStatus
  ELSE RecordSet(allStatus, albumId, RejectedRow(albumId, The(FindAlbum(storedAlbums, albumId))))

RECURSIVE RejectAll(_, _, _)
RejectAll(allStatus, albumIds, storedAlbums) ==
  IF albumIds = <<>> THEN allStatus
  ELSE RejectAll(RejectOne(allStatus, Head(albumIds), storedAlbums), Tail(albumIds), storedAlbums)

batchUpdateReviewStatus(albumIds) ==
  /\ reviewStatus' = RejectAll(reviewStatus, albumIds, albums)
  /\ prev' = Store
  /\ last' = [op |-> "batchUpdateReviewStatus", albumIds |-> albumIds]
  /\ UNCHANGED <<albums, albumMeta, now, logs, ui>>

BatchReject == \E albumIds \in SeqsUpTo(Ids, MaxBatchLen) : batchUpdateReviewStatus(albumIds)

----------------------------------------------------------------------------
(* deleteAlbums *)

\* new Set(albumIdsToDelete)
SetOf(seq) == {seq[i] : i \in 1..Len(seq)}

\* albums.filter(a => !deleteSet.has(a.albumId))
RECURSIVE RemainingAlbums(_, _)
RemainingAlbums(as, deleteSet) ==
  IF as = <<>> THEN <<>>
  ELSE IF Head(as).albumId \in deleteSet THEN RemainingAlbums(Tail(as), deleteSet)
  ELSE <<Head(as)>> \o RemainingAlbums(Tail(as), deleteSet)

\* the status rows written back without the filter
RemainingStatusAll(status, deleteSet) == status

\* remainingStatus
RemainingStatus(status, deleteSet) == RecordFilter(status, DOMAIN status \ deleteSet)

\* the meta map written back with the rows of the deleted albums
RemainingMetaAll(meta, deleteSet) == meta

\* remainingMeta
RemainingMeta(meta, deleteSet) == RecordFilter(meta, DOMAIN meta \ deleteSet)

\* the count taken from the request array instead of the Set
DeleteResultByLength(albumIdsToDelete) == [deleted |-> Len(albumIdsToDelete)]

\* { deleted: deleteSet.size }, also on the early return where the size is 0
DeleteResult(albumIdsToDelete) == [deleted |-> Cardinality(SetOf(albumIdsToDelete))]

deleteAlbums(albumIdsToDelete) ==
  LET deleteSet == SetOf(albumIdsToDelete)
  IN /\ IF Cardinality(deleteSet) = 0
        THEN UNCHANGED <<albums, reviewStatus, albumMeta>>
        ELSE /\ albums' = RemainingAlbums(albums, deleteSet)
             /\ reviewStatus' = RemainingStatus(reviewStatus, deleteSet)
             /\ albumMeta' = RemainingMeta(albumMeta, deleteSet)
     /\ prev' = Store
     /\ last' = [op |-> "deleteAlbums", albumIdsToDelete |-> albumIdsToDelete,
                 result |-> DeleteResult(albumIdsToDelete)]
     /\ UNCHANGED <<now, logs, ui>>

DeleteRecords == \E albumIdsToDelete \in SeqsUpTo(Ids, MaxBatchLen) : deleteAlbums(albumIdsToDelete)

----------------------------------------------------------------------------
(* clearAllData *)

\* removeItem on the three keys: the getters then read [] and {}
clearAllData ==
  /\ albums' = <<>>
  /\ reviewStatus' = EmptyRecord
  /\ albumMeta' = EmptyRecord
  /\ prev' = Store
  /\ last' = [op |-> "clearAllData"]
  /\ UNCHANGED <<now, logs, ui>>

----------------------------------------------------------------------------

Next ==
  \/ Tick
  \/ ImportBatch
  \/ UpdateStatus
  \/ BatchReject
  \/ DeleteRecords
  \/ clearAllData

Spec == Init /\ [][Next]_vars

----------------------------------------------------------------------------
(* Operation log: addOperationLog *)

\* only the most recent 1000 entries are kept
LogLimit == 1000

\* most log entries the model appends in one behaviour
MaxAppends == 2

\* '系统用户'
SystemUser == "SystemUser"

\* newLog: id and operationTime are both renderings of the clock
NewLog(operation, result, time) ==
  [id |-> time, operator |-> SystemUser, operationTime |-> time,
   operation |-> operation, result |-> result]

\* logs.slice(-1000): the oldest 1000 entries are kept, the new one is lost
TruncateLogsKeepOldest(l) ==
  IF Len(l) > LogLimit THEN SubSeq(l, Len(l) - LogLimit + 1, Len(l)) ELSE l

\* if (logs.length > 1000) logs.splice(1000)
TruncateLogs(l) ==
  IF Len(l) > LogLimit THEN SubSeq(l, 1, LogLimit) ELSE l

\* logs.unshift(newLog), the truncation, and the setItem
LogsAfterAppend(l, operation, result, time) ==
  TruncateLogs(<<NewLog(operation, result, time)>> \o l)

\* entries of the log written since time 0
AppendedSoFar == Cardinality({i \in 1..Len(logs) : logs[i].id >= 0})

addOperationLog(operation, result) ==
  /\ AppendedSoFar < MaxAppends
  /\ logs' = LogsAfterAppend(logs, operation, result, now)
  /\ last' = [op |-> "addOperationLog", operation |-> operation, result |-> result,
              time |-> now, before |-> logs]
  /\ prev' = Store
  /\ UNCHANGED <<albums, reviewStatus, albumMeta, now, ui>>

\* the texts of the entries are free text; two operations stand for them
LogOperations == {"review", "export"}

AddOperationLog == \E operation \in LogOperations : addOperationLog(operation, "done")

\* a log of n entries written before time 0, one per millisecond
PastLog(n) == [i \in 1..n |-> NewLog("review", "done", 0 - i)]

\* the empty store with an empty, an almost full or a full log
LogInit ==
  /\ OnImportPage
  /\ albums = <<>>
  /\ reviewStatus = EmptyRecord
  /\ albumMeta = EmptyRecord
  /\ logs \in {PastLog(n) : n \in {0, LogLimit - 1, LogLimit}}
  /\ now = 0
  /\ prev = [albums |-> <<>>, reviewStatus |-> EmptyRecord, albumMeta |-> EmptyRecord]
  /\ last = [op |-> "init"]

\* the repository operations on one album, next to the log
LogImport == \E v \in {"x", "y"} : importAlbums(<<Album("a1", v)>>)

LogUpdateStatus == updateAlbumReviewStatus("a1", RejectPartial)

LogBatchReject == batchUpdateReviewStatus(<<"a1">>)

LogDeleteRecords == deleteAlbums(<<"a1">>)

LogNext ==
  \/ Tick
  \/ AddOperationLog
  \/ LogImport
  \/ LogUpdateStatus
  \/ LogBatchReject
  \/ LogDeleteRecords
  \/ clearAllData

SpecLog == LogInit /\ [][LogNext]_vars

----------------------------------------------------------------------------
(* A failing store write: localStorage.setItem throws (quota exceeded) in   *)
(* the middle of importAlbums or deleteAlbums, which call saveAlbums,       *)
(* saveReviewStatus and saveAlbumMetaMap in this order and catch nothing.   *)
(* The behaviours of SpecFail end at the first failed write.                *)

\* the store put back as it was when a write throws
WrittenPrefixRolledBack(old, new, written) == old

\* the store after the first `written` of the three writes of `new`
\* succeeded and the next one threw
WrittenPrefix(old, new, written) ==
  [albums |-> IF written >= 1 THEN new.albums ELSE old.albums,
   reviewStatus |-> IF written >= 2 THEN new.reviewStatus ELSE old.reviewStatus,
   albumMeta |-> IF written >= 3 THEN new.albumMeta ELSE old.albumMeta]

FailedOps == {"importAlbums:StorageError", "deleteAlbums:StorageError"}

\* importAlbums whose write number written + 1 throws
importAlbumsStorageError(newAlbums, written) ==
  LET merged == ImportMerge(newAlbums, albums, reviewStatus, albumMeta, now)
      albumIds == AlbumIdsOf(merged.albumMap)
      new == [albums |-> merged.albumMap,
              reviewStatus |-> StatusToKeep(reviewStatus, albumIds),
              albumMeta |-> MetaCleaned(merged.metaToKeep, albumIds)]
      after == WrittenPrefix(Store, new, written)
  IN /\ albums' = after.albums
     /\ reviewStatus' = after.reviewStatus
     /\ albumMeta' = after.albumMeta
     /\ prev' = Store
     /\ last' = [op |-> "importAlbums:StorageError", newAlbums |-> newAlbums,
                 nowIso |-> now, written |-> written]
     /\ UNCHANGED <<now, logs, ui>>

\* deleteAlbums whose write number written + 1 throws; the early return of
\* an empty request writes nothing
deleteAlbumsStorageError(albumIdsToDelete, written) ==
  LET deleteSet == SetOf(albumIdsToDelete)
      new == [albums |-> RemainingAlbums(albums, deleteSet),
              reviewStatus |-> RemainingStatus(reviewStatus, deleteSet),
              albumMeta |-> RemainingMeta(albumMeta, deleteSet)]
      after == WrittenPrefix(Store, new, written)
  IN /\ Cardinality(deleteSet) # 0
     /\ albums' = after.albums
     /\ reviewStatus' = after.reviewStatus
     /\ albumMeta' = after.albumMeta
     /\ prev' = Store
     /\ last' = [op |-> "deleteAlbums:StorageError",
                 albumIdsToDelete |-> albumIdsToDelete, written |-> written]
     /\ UNCHANGED <<now, logs, ui>>

\* no write has failed so far
NoFailure == last.op \notin FailedOps

FailingImport ==
  /\ NoFailure
  /\ \E newAlbums \in SeqsUpTo(AlbumRows, 1) : \E written \in 0..2 :
       importAlbumsStorageError(newAlbums, written)

FailingDelete ==
  /\ NoFailure
  /\ \E albumIdsToDelete \in SeqsUpTo(Ids, MaxBatchLen) : \E written \in 0..2 :
       deleteAlbumsStorageError(albumIdsToDelete, written)

Working == NoFailure /\ Next

FailNext ==
  \/ Working
  \/ FailingImport
  \/ FailingDelete

SpecFail == Init /\ [][FailNext]_vars

----------------------------------------------------------------------------
(* CSV import: parseCSV (utils/csvParser.ts) and handleFileSelect           *)
(* (ImportPage).  A file is its name, a sequence of characters, and its     *)
(* lines; a line is the sequence of cells parseCSVLine splits it into.      *)

\* CSV_HEADERS: '专辑id', '专辑名称', '书名', '赛道品类', '图片1链接' .. '图片4链接'
CSV_HEADERS ==
  <<"albumId", "albumName", "bookName", "category", "image1", "image2", "image3", "image4">>

\* String.prototype.trim on the cells of the model
Trim(cell) == IF cell = " " THEN "" ELSE IF cell = " a1" THEN "a1" ELSE cell

\* line.trim() is empty: the line has no comma and only white space
IsBlankLine(line) == Len(line) = 1 /\ Trim(line[1]) = ""

\* text.split('\n').filter(line => line.trim())
RECURSIVE NonBlankLines(_)
NonBlankLines(lines) ==
  IF lines = <<>> THEN <<>>
  ELSE IF IsBlankLine(Head(lines)) THEN NonBlankLines(Tail(lines))
  ELSE <<Head(lines)>> \o NonBlankLines(Tail(lines))

\* headers.indexOf(name): 0-based, -1 when not found
IndexOf(headers, name) ==
  IF \E i \in 1..Len(headers) : headers[i] = name
  THEN (CHOOSE i \in 1..Len(headers) :
          /\ headers[i] = name
          /\ \A j \in 1..(i - 1) : headers[j] # name) - 1
  ELSE -1

\* values[headers.indexOf(name)]?.trim() || ''
CellOf(values, headers, name) ==
  LET idx == IndexOf(headers, name)
  IN IF idx >= 0 /\ idx < Len(values) THEN Trim(values[idx + 1]) ELSE ""

\* the Album built from one data line
AlbumOfLine(values, headers) ==
  [albumId |-> CellOf(values, headers, "albumId"),
   albumName |-> CellOf(values, headers, "albumName"),
   bookName |-> CellOf(values, headers, "bookName"),
   category |-> CellOf(values, headers, "category"),
   image1 |-> CellOf(values, headers, "image1"),
   image2 |-> CellOf(values, headers, "image2"),
   image3 |-> CellOf(values, headers, "image3"),
   image4 |-> CellOf(values, headers, "image4")]

\* the data-line loop that skips a bad row and goes on
RECURSIVE ParseRowsSkippingBad(_, _, _, _)
ParseRowsSkippingBad(lines, headers, i, parsed) ==
  IF i >= Len(lines) THEN [ok |-> TRUE, albums |-> parsed, error |-> <<>>]
  ELSE IF Len(lines[i + 1]) # Len(headers)
       THEN ParseRowsSkippingBad(lines, headers, i + 1, parsed)
  ELSE IF AlbumOfLine(lines[i + 1], headers).albumId = ""
       THEN ParseRowsSkippingBad(lines, headers, i + 1, parsed)
  ELSE ParseRowsSkippingBad(lines, headers, i + 1,
                            Append(parsed, AlbumOfLine(lines[i + 1], headers)))

\* the data-line loop from 0-based line i on: the albums pushed so far, or
\* the rejection with the 1-based row number i + 1
RECURSIVE ParseRows(_, _, _, _)
ParseRows(lines, headers, i, parsed) ==
  IF i >= Len(lines) THEN [ok |-> TRUE, albums |-> parsed, error |-> <<>>]
  ELSE IF Len(lines[i + 1]) # Len(headers)
       THEN [ok |-> FALSE, albums |-> <<>>, error |-> <<"ColumnMismatch", i + 1>>]
  ELSE IF AlbumOfLine(lines[i + 1], headers).albumId = ""
       THEN [ok |-> FALSE, albums |-> <<>>, error |-> <<"EmptyAlbumId", i + 1>>]
  ELSE ParseRows(lines, headers, i + 1, Append(parsed, AlbumOfLine(lines[i + 1], headers)))

\* parseCSV: resolve(albums) or reject(error)
parseCSV(fileLines) ==
  LET lines == NonBlankLines(fileLines)
  IN IF Len(lines) < 2
     THEN [ok |-> FALSE, albums |-> <<>>, error |-> <<"TooFewLines", 0>>]
     ELSE IF \E k \in 1..Len(CSV_HEADERS) : IndexOf(lines[1], CSV_HEADERS[k]) = -1
     THEN [ok |-> FALSE, albums |-> <<>>, error |-> <<"MissingHeaders", 0>>]
     ELSE ParseRows(lines, lines[1], 1, <<>>)

\* file.name.endsWith('.csv')
EndsWith(name, suffix) ==
  /\ Len(name) >= Len(suffix)
  /\ SubSeq(name, Len(name) - Len(suffix) + 1, Len(name)) = suffix

DotCsv == <<".", "c", "s", "v">>

\* handleFileSelect for a selected file: the extension test, parseCSV, then
\* importAlbums and the success log entry, or the failure log entry of the
\* catch block; last.invoked tells whether importAlbums was called
ErrorMessage(error) ==
  [kind |-> "error", error |-> error, imported |-> 0, duplicates |-> 0]

SuccessMessage(imported, duplicates) ==
  [kind |-> "success", error |-> <<"", 0>>, imported |-> imported, duplicates |-> duplicates]

handleFileSelect(file) ==
  LET parsed == parseCSV(file.lines)
      merged == ImportMerge(parsed.albums, albums, reviewStatus, albumMeta, now)
      albumIds == AlbumIdsOf(merged.albumMap)
      done == SuccessMessage(Len(parsed.albums), merged.duplicates)
  IN /\ prev' = Store
     /\ UNCHANGED <<now, ui>>
     /\ IF ~EndsWith(file.name, DotCsv)
        THEN /\ UNCHANGED <<albums, reviewStatus, albumMeta, logs>>
             /\ last' = [op |-> "handleFileSelect", file |-> file, invoked |-> FALSE,
                         message |-> ErrorMessage(<<"NotCsv", 0>>)]
        ELSE IF ~parsed.ok
        THEN /\ UNCHANGED <<albums, reviewStatus, albumMeta>>
             /\ logs' = LogsAfterAppend(logs, "importCsv", ErrorMessage(parsed.error), now)
             /\ last' = [op |-> "handleFileSelect", file |-> file, invoked |-> FALSE,
                         message |-> ErrorMessage(parsed.error)]
        ELSE IF Len(parsed.albums) = 0
        THEN /\ UNCHANGED <<albums, reviewStatus, albumMeta, logs>>
             /\ last' = [op |-> "handleFileSelect", file |-> file, invoked |-> FALSE,
                         message |-> ErrorMessage(<<"NoData", 0>>)]
        ELSE /\ albums' = merged.albumMap
             /\ reviewStatus' = StatusToKeep(reviewStatus, albumIds)
             /\ albumMeta' = MetaCleaned(merged.metaToKeep, albumIds)
             /\ logs' = LogsAfterAppend(logs, "importCsv", done, now)
             /\ last' = [op |-> "handleFileSelect", file |-> file, invoked |-> TRUE,
                         message |-> done]

\* the data line of Album(id, "x") under the header CSV_HEADERS
LineOf(id) ==
  <<id, "name-x", "book-x", "category-x", "image1-x", "image2-x", "image3-x", "image4-x">>

\* the header without the book name column
HeaderWithoutBook ==
  <<"albumId", "albumName", "category", "image1", "image2", "image3", "image4">>

\* the lines a file of the model is made of: two good rows, one with white
\* space around the identifier, rows without identifier, a row that misses
\* a column, and a blank line
DataLines ==
  {LineOf("a1"), LineOf("a2"), LineOf(" a1"), LineOf(""), LineOf(" "),
   HeaderWithoutBook, <<" ">>}

CsvFiles ==
  {[name |-> <<"a">> \o DotCsv, lines |-> <<h>> \o d] :
     h \in {CSV_HEADERS, HeaderWithoutBook}, d \in SeqsUpTo(DataLines, 2)}
  \cup {[name |-> <<"a">> \o DotCsv, lines |-> <<>>],
        [name |-> <<"a", ".", "t", "x", "t">>, lines |-> <<CSV_HEADERS, LineOf("a1")>>]}

HandleFileSelect ==
  /\ AppendedSoFar < MaxAppends
  /\ \E file \in CsvFiles : handleFileSelect(file)

\* the reviewer rejects an album between two imports
CsvReject == \E albumId \in Ids : updateAlbumReviewStatus(albumId, RejectPartial)

CsvNext ==
  \/ HandleFileSelect
  \/ CsvReject

SpecCsv == Init /\ [][CsvNext]_vars

----------------------------------------------------------------------------
(* Review navigator (ReviewPage in pages/ImportPage.tsx): read-side          *)
(* functions of the store.  null is the absent optional {}.                 *)

\* !status || status.reviewStatus === '未抽卡'
IsUnreviewed(allStatus, albumId) ==
  \/ albumId \notin DOMAIN allStatus
  \/ allStatus[albumId].reviewStatus = Unreviewed

\* albums.filter(a => !status || status.reviewStatus === '未抽卡')
RECURSIVE UnreviewedOf(_, _)
UnreviewedOf(as, allStatus) ==
  IF as = <<>> THEN <<>>
  ELSE IF IsUnreviewed(allStatus, Head(as).albumId)
       THEN <<Head(as)>> \o UnreviewedOf(Tail(as), allStatus)
       ELSE UnreviewedOf(Tail(as), allStatus)

\* as.findIndex(a => a.albumId === albumId): 0-based, -1 when not found
FindIndex(as, albumId) ==
  IF \E i \in 1..Len(as) : as[i].albumId = albumId
  THEN (CHOOSE i \in 1..Len(as) :
          /\ as[i].albumId = albumId
          /\ \A j \in 1..(i - 1) : as[j].albumId # albumId) - 1
  ELSE -1

\* as[idx].albumId for a 0-based idx
IdAt(as, idx) == as[idx + 1].albumId

\* the lookup that answers null for an identifier outside the unreviewed list
getNextUnreviewedAlbumIdNullWhenAbsent(as, allStatus, current) ==
  LET unreviewed == UnreviewedOf(as, allStatus)
      idx == FindIndex(unreviewed, current)
  IN IF Len(unreviewed) = 0 THEN {}
     ELSE IF idx = -1 THEN {}
     ELSE IF idx >= Len(unreviewed) - 1 THEN {}
     ELSE {IdAt(unreviewed, idx + 1)}

getNextUnreviewedAlbumId(as, allStatus, current) ==
  LET unreviewed == UnreviewedOf(as, allStatus)
      idx == FindIndex(unreviewed, current)
  IN IF Len(unreviewed) = 0 THEN {}
     ELSE IF idx = -1 THEN {IdAt(unreviewed, 0)}
     ELSE IF idx >= Len(unreviewed) - 1 THEN {}
     ELSE {IdAt(unreviewed, idx + 1)}

getPreviousAlbumId(as, current) ==
  LET idx == FindIndex(as, current)
  IN IF idx <= 0 THEN {} ELSE {IdAt(as, idx - 1)}

\* the lookup without the idx === -1 test
getNextAlbumIdNoAbsentTest(as, current) ==
  LET idx == FindIndex(as, current)
  IN IF idx >= Len(as) - 1 THEN {} ELSE {IdAt(as, idx + 1)}

getNextAlbumId(as, current) ==
  LET idx == FindIndex(as, current)
  IN IF idx = -1 \/ idx >= Len(as) - 1 THEN {} ELSE {IdAt(as, idx + 1)}

totalAlbumCount(as) == Len(as)

unreviewedCount(as, allStatus) == Len(UnreviewedOf(as, allStatus))

\* the position taken 0-based, without the + 1
currentIndexZeroBased(as, allStatus, albumId) ==
  IF albumId = {} THEN 0
  ELSE FindIndex(UnreviewedOf(as, allStatus), The(albumId))

\* unreviewed.findIndex(a => a.albumId === albumId) + 1; albumId is the
\* optional route parameter, and no album has the identifier undefined
currentIndex(as, allStatus, albumId) ==
  IF albumId = {} THEN 0
  ELSE FindIndex(UnreviewedOf(as, allStatus), The(albumId)) + 1

Max(a, b) == IF a >= b THEN a ELSE b

Min(a, b) == IF a <= b THEN a ELSE b

\* the text `${safeCurrent}/${totalAlbumCount}` as the pair of its numbers
overallProgressText(as, allStatus, albumId) ==
  IF albumId = {} THEN <<0, totalAlbumCount(as)>>
  ELSE IF totalAlbumCount(as) <= 0 THEN <<0, 0>>
  ELSE LET reviewedCount == Max(0, totalAlbumCount(as) - unreviewedCount(as, allStatus))
           currentOverallIndex ==
             IF currentIndex(as, allStatus, albumId) > 0
             THEN reviewedCount + currentIndex(as, allStatus, albumId)
             ELSE reviewedCount
           safeCurrent == Min(Max(currentOverallIndex, 0), totalAlbumCount(as))
       IN <<safeCurrent, totalAlbumCount(as)>>

----------------------------------------------------------------------------
(* The store after one import of a catalog of up to three albums, worked on *)
(* by the review and overview pages without a further import.               *)

CatalogIds == {"a1", "a2", "a3"}

\* the CSV files of distinct identifiers
Catalogs ==
  {c \in SeqsUpTo({Album(id, "x") : id \in CatalogIds}, Cardinality(CatalogIds)) :
     \A i, j \in 1..Len(c) : c[i].albumId = c[j].albumId => i = j}

CatalogInit ==
  /\ OnImportPage
  /\ albums \in Catalogs
  /\ reviewStatus = EmptyRecord
  /\ albumMeta = [id \in AlbumIdsOf(albums) |-> [albumId |-> id, importedAt |-> 0]]
  /\ logs = <<>>
  /\ now = 0
  /\ prev = [albums |-> <<>>, reviewStatus |-> EmptyRecord, albumMeta |-> EmptyRecord]
  /\ last = [op |-> "importAlbums", newAlbums |-> albums, nowIso |-> 0,
             result |-> [imported |-> Len(albums), duplicates |-> 0]]

CatalogUpdateStatus == \E albumId \in CatalogIds : \E status \in Partials(albumId) :
                         updateAlbumReviewStatus(albumId, status)

CatalogBatchReject == \E albumIds \in SeqsUpTo(CatalogIds, MaxBatchLen) :
                        batchUpdateReviewStatus(albumIds)

CatalogDeleteRecords == \E albumIdsToDelete \in SeqsUpTo(CatalogIds, MaxBatchLen) :
                          deleteAlbums(albumIdsToDelete)

\* the review page asks for the next unreviewed album after current
NextUnreviewed ==
  \E current \in CatalogIds :
    /\ last' = [op |-> "getNextUnreviewedAlbumId", current |-> current,
                result |-> getNextUnreviewedAlbumId(albums, reviewStatus, current)]
    /\ prev' = Store
    /\ UNCHANGED <<albums, reviewStatus, albumMeta, now, logs, ui>>

\* the previous / next buttons of the review page
AdjacentByCatalogOrder ==
  \E current \in CatalogIds :
    /\ last' = [op |-> "adjacentByCatalogOrder", current |-> current,
                previous |-> getPreviousAlbumId(albums, current),
                next |-> getNextAlbumId(albums, current)]
    /\ prev' = Store
    /\ UNCHANGED <<albums, reviewStatus, albumMeta, now, logs, ui>>

\* the review page of albumId renders its progress text
OverallProgress ==
  \E albumId \in {{}} \cup {{id} : id \in CatalogIds} :
    /\ last' = [op |-> "overallProgressText", albumId |-> albumId,
                result |-> overallProgressText(albums, reviewStatus, albumId)]
    /\ prev' = Store
    /\ UNCHANGED <<albums, reviewStatus, albumMeta, now, logs, ui>>

CatalogNext ==
  \/ CatalogUpdateStatus
  \/ CatalogBatchReject
  \/ CatalogDeleteRecords
  \/ NextUnreviewed
  \/ AdjacentByCatalogOrder
  \/ OverallProgress

SpecCatalog == CatalogInit /\ [][CatalogNext]_vars

----------------------------------------------------------------------------
(* exportReviewResults (utils/export.ts): the rows handed to exportCSV *)

\* opt || fallback for an optional string: absent and '' are falsy
OrElse(opt, fallback) == IF opt = {} \/ opt = {""} THEN fallback ELSE The(opt)

\* one ReviewResult: '未抽卡' is both the link marker and the status label
ExportRow(as, allStatus, albumId) ==
  LET album == FindAlbum(as, albumId)
      status == StatusOf(allStatus, albumId)
  IN IF album = {}
     THEN [albumId |-> albumId, albumName |-> "", bookName |-> "", category |-> "",
           imageLink |-> Unreviewed, reviewStatus |-> Unreviewed]
     ELSE IF status = {} \/ The(status).reviewStatus = Unreviewed
     THEN [albumId |-> The(album).albumId, albumName |-> The(album).albumName,
           bookName |-> The(album).bookName, category |-> The(album).category,
           imageLink |-> Unreviewed, reviewStatus |-> Unreviewed]
     ELSE [albumId |-> The(album).albumId, albumName |-> The(album).albumName,
           bookName |-> The(album).bookName, category |-> The(album).category,
           imageLink |-> OrElse(The(status).selectedImageLink, Unreviewed),
           reviewStatus |-> Reviewed]

\* results: filteredAlbumIds is the optional argument, {} when not given
exportReviewResults(as, allStatus, filteredAlbumIds) ==
  LET albumIdsToExport == IF filteredAlbumIds = {} THEN [i \in 1..Len(as) |-> as[i].albumId]
                          ELSE The(filteredAlbumIds)
  IN [i \in 1..Len(albumIdsToExport) |-> ExportRow(as, allStatus, albumIdsToExport[i])]

----------------------------------------------------------------------------
(* ReviewPage and the routes (pages/ImportPage.tsx, App.tsx) *)

\* the image slots [1, 2, 3, 4]
Slots == 1..4

\* [album.image1, album.image2, album.image3, album.image4]
ImageLinks(album) == <<album.image1, album.image2, album.image3, album.image4>>

\* an album with images in the slots 1 and 2 only
TwoImages(id) == [Album(id, "x") EXCEPT !.image3 = "", !.image4 = ""]

\* an album with an image in slot 2 only
SecondImageOnly(id) == [TwoImages(id) EXCEPT !.image1 = ""]

\* the catalog the reviewer works on
ReviewCatalog == <<TwoImages("a1"), SecondImageOnly("a2"), TwoImages("a3")>>

ReviewIds == {"a1", "a2", "a3"}

\* the image cards the reviewer clicks in the model
ImageClicks == {1, 2}

\* initialStatus: 'error' for a slot without url, 'loading' otherwise
InitialLoadStatus(album) ==
  [idx \in Slots |-> IF Trim(ImageLinks(album)[idx]) = "" THEN "error" ELSE "loading"]

\* the slots that render an <img>
SlotsWithUrl(album) == {idx \in Slots : Trim(ImageLinks(album)[idx]) # ""}

\* the selection shown for the loaded status row
LoadedSelection(status) ==
  IF status # {} /\ The(status).reviewStatus = Reviewed
  THEN The(status).selectedImageIndex
  ELSE {}

\* the component state after the load effect and the timer effect ran for
\* foundAlbum; rp is the state before (the modal flag is not touched)
ReviewPageLoaded(rp, foundAlbum, status) ==
  [album |-> {foundAlbum},
   reviewStatus |-> status,
   selectedImageIndex |-> LoadedSelection(status),
   imageLoadStatus |-> InitialLoadStatus(foundAlbum),
   showRejectModal |-> rp.showRejectModal,
   timers |-> Slots,
   imgPending |-> SlotsWithUrl(foundAlbum)]

\* loadData of OverviewPage on a freshly mounted component
OverviewPageLoaded(as, allStatus, meta) ==
  [OverviewPageInitial EXCEPT !.albums = as, !.reviewStatus = allStatus, !.albumMeta = meta]

\* navigate('/overview'): the page state after OverviewPage has mounted
GoOverview(as, allStatus, meta) ==
  [page |-> [name |-> "overview", albumId |-> {}],
   reviewPage |-> ReviewPageInitial,
   overviewPage |-> OverviewPageLoaded(as, allStatus, meta)]

\* navigate(`/review/${albumId}`) and the load effect: an unknown album
\* sends the reviewer on to the overview
GoReview(rp, as, allStatus, meta, albumId) ==
  IF FindAlbum(as, albumId) = {}
  THEN GoOverview(as, allStatus, meta)
  ELSE [page |-> [name |-> "review", albumId |-> {albumId}],
        reviewPage |-> ReviewPageLoaded(rp, The(FindAlbum(as, albumId)),
                                        StatusOf(allStatus, albumId)),
        overviewPage |-> OverviewPageInitial]

\* the target of a navigation that goes to an album if there is one
GoNextOrOverview(rp, as, allStatus, meta, nextId) ==
  IF nextId # {} THEN GoReview(rp, as, allStatus, meta, The(nextId))
  ELSE GoOverview(as, allStatus, meta)

SetUi(target) ==
  /\ page' = target.page
  /\ reviewPage' = target.reviewPage
  /\ overviewPage' = target.overviewPage

\* the review page shows an album and no modal covers it
Reviewing ==
  /\ page.name = "review"
  /\ reviewPage.album # {}
  /\ ~reviewPage.showRejectModal

\* the overview page with the store right after the import of catalog
OverviewAfterImport(catalog) ==
  /\ albums = catalog
  /\ reviewStatus = EmptyRecord
  /\ albumMeta = [id \in AlbumIdsOf(catalog) |-> [albumId |-> id, importedAt |-> 0]]
  /\ logs = <<>>
  /\ now = 0
  /\ prev = [albums |-> <<>>, reviewStatus |-> EmptyRecord, albumMeta |-> EmptyRecord]
  /\ last = [op |-> "importAlbums", newAlbums |-> catalog, nowIso |-> 0,
             result |-> [imported |-> Len(catalog), duplicates |-> 0]]
  /\ page = GoOverview(albums, reviewStatus, albumMeta).page
  /\ reviewPage = GoOverview(albums, reviewStatus, albumMeta).reviewPage
  /\ overviewPage = GoOverview(albums, reviewStatus, albumMeta).overviewPage

\* the review button of an overview row, or the address /review/albumId
OpenReview(albumId) ==
  /\ page.name = "overview"
  /\ SetUi(GoReview(ReviewPageInitial, albums, reviewStatus, albumMeta, albumId))
  /\ prev' = Store
  /\ last' = [op |-> "openReview", albumId |-> albumId]
  /\ UNCHANGED <<albums, reviewStatus, albumMeta, logs, now>>

\* the selection after a click on image card index
SelectionAfterClick(rp, index) ==
  IF rp.reviewStatus # {} /\ The(rp.reviewStatus).reviewStatus = Reviewed
  THEN rp.selectedImageIndex
  ELSE IF rp.selectedImageIndex = {index} THEN {} ELSE {index}

handleImageSelect(index) ==
  /\ Reviewing
  /\ reviewPage' = [reviewPage EXCEPT !.selectedImageIndex = SelectionAfterClick(reviewPage, index)]
  /\ prev' = Store
  /\ last' = [op |-> "handleImageSelect", albumId |-> The(reviewPage.album).albumId,
              index |-> index]
  /\ UNCHANGED <<albums, reviewStatus, albumMeta, logs, now, page, overviewPage>>

\* `确认通过，选择图片${selectedImageIndex}`
ConfirmText(index) == <<"confirm-1", "confirm-2", "confirm-3", "confirm-4">>[index]

\* the 通过 button (enabled while an image is selected): executeConfirm
executeConfirm ==
  /\ Reviewing
  /\ reviewPage.selectedImageIndex # {}
  /\ AppendedSoFar < MaxAppends
  /\ LET album == The(reviewPage.album)
         index == The(reviewPage.selectedImageIndex)
         stored == FindAlbum(albums, album.albumId)
         newStatus == StatusAfterUpdate(reviewStatus, album.albumId,
                                        AcceptPartial(album, index), stored)
     IN /\ prev' = Store
        /\ last' = [op |-> "executeConfirm", albumId |-> album.albumId, index |-> index]
        /\ UNCHANGED <<albums, albumMeta, now>>
        /\ IF AlbumMissing(stored)
           THEN UNCHANGED <<reviewStatus, logs, ui>>
           ELSE /\ reviewStatus' = newStatus
                /\ logs' = LogsAfterAppend(logs, "review-" \o album.albumId,
                                           ConfirmText(index), now)
                /\ SetUi(GoNextOrOverview(reviewPage, albums, newStatus, albumMeta,
                                          getNextAlbumId(albums, album.albumId)))

\* the 不通过 button (enabled while no image is selected) opens the modal
handleReject ==
  /\ Reviewing
  /\ reviewPage.selectedImageIndex = {}
  /\ reviewPage' = [reviewPage EXCEPT !.showRejectModal = TRUE]
  /\ prev' = Store
  /\ last' = [op |-> "handleReject", albumId |-> The(reviewPage.album).albumId]
  /\ UNCHANGED <<albums, reviewStatus, albumMeta, logs, now, page, overviewPage>>

\* the modal is closed without a decision
closeRejectModal ==
  /\ page.name = "review"
  /\ reviewPage.showRejectModal
  /\ reviewPage' = [reviewPage EXCEPT !.showRejectModal = FALSE]
  /\ prev' = Store
  /\ last' = [op |-> "closeRejectModal", albumId |-> The(reviewPage.album).albumId]
  /\ UNCHANGED <<albums, reviewStatus, albumMeta, logs, now, page, overviewPage>>

\* the navigation after a reject taken to the next album of the catalog
RejectTargetByCatalogOrder(as, allStatus, current) == getNextAlbumId(as, current)

\* the album executeReject goes to after the status was written
RejectTarget(as, allStatus, current) == getNextUnreviewedAlbumId(as, allStatus, current)

\* the confirm button of the modal: executeReject
executeReject ==
  /\ page.name = "review"
  /\ reviewPage.album # {}
  /\ reviewPage.showRejectModal
  /\ LET album == The(reviewPage.album)
         stored == FindAlbum(albums, album.albumId)
         newStatus == StatusAfterUpdate(reviewStatus, album.albumId, RejectPartial, stored)
         closed == [reviewPage EXCEPT !.showRejectModal = FALSE]
     IN /\ prev' = Store
        /\ last' = [op |-> "executeReject", albumId |-> album.albumId]
        /\ UNCHANGED <<albums, albumMeta, now>>
        /\ IF AlbumMissing(stored)
           THEN UNCHANGED <<reviewStatus, logs, ui>>
           ELSE /\ reviewStatus' = newStatus
                /\ logs' = LogsAfterAppend(logs, "review-" \o album.albumId, "reject", now)
                /\ SetUi(GoNextOrOverview(closed, albums, newStatus, albumMeta,
                                          RejectTarget(albums, newStatus, album.albumId)))

\* the 上一个 button, enabled when there is a previous album
goPrevious ==
  /\ Reviewing
  /\ getPreviousAlbumId(albums, The(reviewPage.album).albumId) # {}
  /\ SetUi(GoReview(reviewPage, albums, reviewStatus, albumMeta,
                    The(getPreviousAlbumId(albums, The(reviewPage.album).albumId))))
  /\ prev' = Store
  /\ last' = [op |-> "goPrevious", albumId |-> The(reviewPage.album).albumId]
  /\ UNCHANGED <<albums, reviewStatus, albumMeta, logs, now>>

\* the 下一个 button, enabled when there is a next album
goNext ==
  /\ Reviewing
  /\ getNextAlbumId(albums, The(reviewPage.album).albumId) # {}
  /\ SetUi(GoReview(reviewPage, albums, reviewStatus, albumMeta,
                    The(getNextAlbumId(albums, The(reviewPage.album).albumId))))
  /\ prev' = Store
  /\ last' = [op |-> "goNext", albumId |-> The(reviewPage.album).albumId]
  /\ UNCHANGED <<albums, reviewStatus, albumMeta, logs, now>>

\* the 返回 button
backToOverview ==
  /\ Reviewing
  /\ SetUi(GoOverview(albums, reviewStatus, albumMeta))
  /\ prev' = Store
  /\ last' = [op |-> "backToOverview", albumId |-> The(reviewPage.album).albumId]
  /\ UNCHANGED <<albums, reviewStatus, albumMeta, logs, now>>

\* exportReviewResults called for a list of identifiers, or for all albums
ExportResults(filteredAlbumIds) ==
  /\ prev' = Store
  /\ last' = [op |-> "exportReviewResults", filteredAlbumIds |-> filteredAlbumIds,
              results |-> exportReviewResults(albums, reviewStatus, filteredAlbumIds)]
  /\ UNCHANGED <<albums, reviewStatus, albumMeta, logs, now, ui>>

----------------------------------------------------------------------------
(* The reviewer decides on the albums of the catalog and exports *)

ReviewInit == \E n \in 0..Len(ReviewCatalog) : OverviewAfterImport(SubSeq(ReviewCatalog, 1, n))

ReviewOpen == \E albumId \in ReviewIds : OpenReview(albumId)

ReviewSelect == \E index \in ImageClicks : handleImageSelect(index)

ReviewExport ==
  \E filteredAlbumIds \in {{}} \cup {{ids} : ids \in SeqsUpTo(ReviewIds, MaxBatchLen)} :
    ExportResults(filteredAlbumIds)

ReviewNext ==
  \/ ReviewOpen
  \/ ReviewSelect
  \/ executeConfirm
  \/ handleReject
  \/ closeRejectModal
  \/ executeReject /\ AppendedSoFar < MaxAppends
  \/ goPrevious
  \/ goNext
  \/ backToOverview
  \/ ReviewExport

SpecReview == ReviewInit /\ [][ReviewNext]_vars

----------------------------------------------------------------------------
(* A reviewer who keeps trying to change the decisions already taken *)

\* a click on card index of album albumId that selects the image
SelectOn(albumId, index) ==
  /\ page.albumId = {albumId}
  /\ handleImageSelect(index)
  /\ reviewPage'.selectedImageIndex = {index}

\* 通过 pressed for album albumId with image index selected
ConfirmOn(albumId, index) ==
  /\ page.albumId = {albumId}
  /\ reviewPage.selectedImageIndex = {index}
  /\ executeConfirm

\* 不通过 pressed for album albumId
RejectOn(albumId) ==
  /\ page.albumId = {albumId}
  /\ handleReject

\* the reject of album albumId confirmed in the modal
ConfirmRejectOn(albumId) ==
  /\ page.albumId = {albumId}
  /\ AppendedSoFar < MaxAppends
  /\ executeReject

\* the album whose decision the reviewer wants to change
RevisedId == "a1"

\* 通过 pressed for an image that is not the stored decision of albumId
ChangeTo(albumId, index) ==
  /\ ConfirmOn(albumId, index)
  /\ \/ albumId \notin DOMAIN reviewStatus
     \/ reviewStatus[albumId].selectedImageIndex # {index}
     \/ reviewStatus[albumId].selectedImageLink = {RejectedLink}

\* a reject confirmed for an album whose stored decision is not a reject
ChangeToReject(albumId) ==
  /\ ConfirmRejectOn(albumId)
  /\ \/ albumId \notin DOMAIN reviewStatus
     \/ reviewStatus[albumId].selectedImageLink # {RejectedLink}

ReviseInit == OverviewAfterImport(SubSeq(ReviewCatalog, 1, 2))

ReviseNext ==
  \/ ReviewOpen
  \/ ReviewSelect
  \/ executeConfirm
  \/ handleReject
  \/ closeRejectModal
  \/ executeReject /\ AppendedSoFar < MaxAppends
  \/ goPrevious
  \/ goNext
  \/ backToOverview

\* every button that changes the decision and can be pressed again and
\* again is pressed in the end
RevisingReviewer ==
  /\ SF_vars(backToOverview)
  /\ SF_vars(closeRejectModal)
  /\ SF_vars(OpenReview(RevisedId))
  /\ SF_vars(RejectOn(RevisedId))
  /\ SF_vars(ChangeToReject(RevisedId))
  /\ \A index \in ImageClicks :
       /\ SF_vars(SelectOn(RevisedId, index))
       /\ SF_vars(ChangeTo(RevisedId, index))

SpecRevise == ReviseInit /\ [][ReviseNext]_vars /\ RevisingReviewer

----------------------------------------------------------------------------
(* A reviewer who rejects every album the review page presents *)

\* none: not decided; accept: image AcceptedSlot confirmed; reject
Decisions == {"none", "accept", "reject"}

\* the slot of the accepted albums the loop starts with
AcceptedSlot == 2

\* the status map after the decisions d were taken on the albums of as
RECURSIVE DecidedStatus(_, _, _)
DecidedStatus(as, d, allStatus) ==
  IF as = <<>> THEN allStatus
  ELSE LET album == Head(as)
           decided ==
             IF d[album.albumId] = "accept"
             THEN StatusAfterUpdate(allStatus, album.albumId,
                                    AcceptPartial(album, AcceptedSlot), {album})
             ELSE IF d[album.albumId] = "reject"
             THEN StatusAfterUpdate(allStatus, album.albumId, RejectPartial, {album})
             ELSE allStatus
       IN DecidedStatus(Tail(as), d, decided)

\* the log after the decisions d were taken in catalog order
RECURSIVE DecidedLogs(_, _, _)
DecidedLogs(as, d, entries) ==
  IF as = <<>> THEN entries
  ELSE LET album == Head(as)
           appended ==
             IF d[album.albumId] = "accept"
             THEN LogsAfterAppend(entries, "review-" \o album.albumId,
                                  ConfirmText(AcceptedSlot), 0)
             ELSE IF d[album.albumId] = "reject"
             THEN LogsAfterAppend(entries, "review-" \o album.albumId, "reject", 0)
             ELSE entries
       IN DecidedLogs(Tail(as), d, appended)

\* the review page of an album of a catalog on which decisions were taken
\* before, opened by its address
RejectLoopInit ==
  \E n \in 1..Len(ReviewCatalog) :
    \E d \in [ReviewIds -> Decisions] :
      \E start \in 1..n :
        LET catalog == SubSeq(ReviewCatalog, 1, n)
            allStatus == DecidedStatus(catalog, d, EmptyRecord)
            meta == [id \in AlbumIdsOf(catalog) |-> [albumId |-> id, importedAt |-> 0]]
            opened == GoReview(ReviewPageInitial, catalog, allStatus, meta,
                               catalog[start].albumId)
        IN /\ \A id \in ReviewIds \ AlbumIdsOf(catalog) : d[id] = "none"
           /\ albums = catalog
           /\ reviewStatus = allStatus
           /\ albumMeta = meta
           /\ logs = DecidedLogs(catalog, d, <<>>)
           /\ now = 0
           /\ prev = [albums |-> catalog, reviewStatus |-> allStatus, albumMeta |-> meta]
           /\ last = [op |-> "openReview", albumId |-> catalog[start].albumId]
           /\ page = opened.page
           /\ reviewPage = opened.reviewPage
           /\ overviewPage = opened.overviewPage

RejectLoopNext ==
  \/ handleReject
  \/ executeReject

\* the reviewer presses 不通过 and confirms whenever the page offers it
SpecRejectLoop ==
  RejectLoopInit /\ [][RejectLoopNext]_vars
    /\ WF_vars(handleReject) /\ WF_vars(executeReject)

----------------------------------------------------------------------------
(* Image loading on the review page: the <img> events, the 2.5 s timers set *)
(* by the effect on album?.albumId, and the retry button                    *)

\* onLoad / onError of the <img> of slot index: handleImageLoad(index, success)
handleImageLoad(index, success) ==
  /\ page.name = "review"
  /\ index \in reviewPage.imgPending
  /\ reviewPage' = [reviewPage EXCEPT
                      !.imageLoadStatus[index] = IF success THEN "success" ELSE "error",
                      !.imgPending = @ \ {index}]
  /\ prev' = Store
  /\ last' = [op |-> "handleImageLoad", index |-> index, success |-> success]
  /\ UNCHANGED <<albums, reviewStatus, albumMeta, logs, now, page, overviewPage>>

\* the status map after the timer of slot index fired
StatusAfterTimeout(imageLoadStatus, index) ==
  IF imageLoadStatus[index] = "success" \/ imageLoadStatus[index] = "error"
  THEN imageLoadStatus
  ELSE [imageLoadStatus EXCEPT ![index] = "error"]

\* the window.setTimeout callback of slot index
imageTimeout(index) ==
  /\ page.name = "review"
  /\ index \in reviewPage.timers
  /\ reviewPage' = [reviewPage EXCEPT
                      !.imageLoadStatus = StatusAfterTimeout(@, index),
                      !.timers = @ \ {index}]
  /\ prev' = Store
  /\ last' = [op |-> "imageTimeout", index |-> index]
  /\ UNCHANGED <<albums, reviewStatus, albumMeta, logs, now, page, overviewPage>>

\* the 重试 button shown on a failed slot that has a url: the status goes
\* back to 'loading'; the <img> keeps its key and its src, no timer is set
retryImage(index) ==
  /\ page.name = "review"
  /\ reviewPage.album # {}
  /\ index \in SlotsWithUrl(The(reviewPage.album))
  /\ reviewPage.imageLoadStatus[index] = "error"
  /\ reviewPage' = [reviewPage EXCEPT !.imageLoadStatus[index] = "loading"]
  /\ prev' = Store
  /\ last' = [op |-> "retryImage", index |-> index]
  /\ UNCHANGED <<albums, reviewStatus, albumMeta, logs, now, page, overviewPage>>

ImagesInit == OverviewAfterImport(SubSeq(ReviewCatalog, 1, 2))

ImageLoaded == \E index \in Slots : \E success \in BOOLEAN : handleImageLoad(index, success)

ImageTimeout == \E index \in Slots : imageTimeout(index)

RetryImage == \E index \in Slots : retryImage(index)

ImagesNext ==
  \/ ReviewOpen
  \/ goPrevious
  \/ goNext
  \/ backToOverview
  \/ ImageLoaded
  \/ ImageTimeout
  \/ RetryImage

\* a timer that is set fires; the <img> events may never arrive
SpecImages ==
  ImagesInit /\ [][ImagesNext]_vars /\ \A index \in Slots : WF_vars(imageTimeout(index))

----------------------------------------------------------------------------
(* OverviewPage (pages/ImportPage.tsx): filters, pages, selection, batch operations *)

\* albums of the overview catalog: one more than the smallest page size
OverviewAlbums == 21

\* clock ticks in a day
TicksPerDay == 2

\* the options of the page-size select
PageSizes == {20, 50, 100}

\* the decimal digit n as a character
Digit(n) == <<"0", "1", "2", "3", "4", "5", "6", "7", "8", "9">>[n + 1]

\* the identifier of the i-th album: its number in two digits
OverviewId(i) == <<Digit(i \div 10), Digit(i % 10)>>

\* the i-th album: its book name is 'B' followed by the identifier
OverviewAlbum(i) == [Album(OverviewId(i), "x") EXCEPT !.bookName = <<"B">> \o OverviewId(i)]

OverviewCatalog == [i \in 1..OverviewAlbums |-> OverviewAlbum(i)]

\* the album whose checkbox the reviewer ticks: the one on the second page
TickIds == {OverviewId(OverviewAlbums)}

\* what the reviewer types into the search box
SearchTexts == {<<>>, <<"b", "2">>}

\* the day the reviewer picks as start date: the day of the last import
StartDays == {1}

\* the day the reviewer picks as end date: the day of the first import
EndDays == {0}

\* most batch operations (reject, export-selected, delete) in one behaviour
MaxBatches == 1

\* String.toLowerCase on one character
LowerChar(c) == IF c = "B" THEN "b" ELSE c

\* String.toLowerCase
toLowerCase(text) == [i \in 1..Len(text) |-> LowerChar(text[i])]

\* text.includes(search)
Includes(text, search) ==
  \E i \in 0..(Len(text) - Len(search)) : SubSeq(text, i + 1, i + Len(search)) = search

\* new Date(`${day}T00:00:00`).getTime()
DayStart(day) == day * TicksPerDay

\* new Date(`${day}T23:59:59`).getTime(): the last tick of the day
DayEnd(day) == day * TicksPerDay + TicksPerDay - 1

\* the status test of filteredAlbums
PassesStatus(op, album) ==
  \/ op.filter.reviewStatus = "All"
  \/ op.filter.reviewStatus = Reviewed /\ IsReviewed(op.reviewStatus, album.albumId)
  \/ op.filter.reviewStatus = Unreviewed /\ ~IsReviewed(op.reviewStatus, album.albumId)

\* the search test of filteredAlbums
PassesSearch(op, album) ==
  \/ op.filter.searchText = <<>>
  \/ Includes(toLowerCase(album.albumId), toLowerCase(op.filter.searchText))
  \/ Includes(toLowerCase(album.bookName), toLowerCase(op.filter.searchText))

\* the import-date test of filteredAlbums
PassesDates(op, album) ==
  \/ op.filter.startDate = {} /\ op.filter.endDate = {}
  \/ /\ album.albumId \in DOMAIN op.albumMeta
     /\ \/ op.filter.startDate = {}
        \/ op.albumMeta[album.albumId].importedAt >= DayStart(The(op.filter.startDate))
     /\ \/ op.filter.endDate = {}
        \/ op.albumMeta[album.albumId].importedAt <= DayEnd(The(op.filter.endDate))

\* filteredAlbums of the page state op
filteredAlbums(op) ==
  LET Passes(album) == PassesStatus(op, album) /\ PassesSearch(op, album) /\ PassesDates(op, album)
  IN SelectSeq(op.albums, Passes)

\* Math.ceil(filteredAlbums.length / pageSize)
totalPages(op) == (Len(filteredAlbums(op)) + op.pageSize - 1) \div op.pageSize

\* filteredAlbums.slice(start, start + pageSize)
paginatedAlbums(op) ==
  LET filtered == filteredAlbums(op)
      start == (op.currentPage - 1) * op.pageSize
  IN IF start >= Len(filtered) THEN <<>>
     ELSE SubSeq(filtered, start + 1, Min(start + op.pageSize, Len(filtered)))

\* the effect on [filter.reviewStatus, filter.searchText]: the selected
\* identifiers outside the filtered result are dropped
SelectionCleaned(op) == [op EXCEPT !.selectedIds = op.selectedIds \cap AlbumIdsOf(filteredAlbums(op))]

\* the page state after setFilter and setCurrentPage(1); the effect runs
\* when one of its dependencies has changed
FilterChanged(op, depsChanged) == IF depsChanged THEN SelectionCleaned(op) ELSE op

\* the selected identifiers that are not reviewed
SelectedUnreviewed(op) == {id \in op.selectedIds : ~IsReviewed(op.reviewStatus, id)}

\* filteredAlbums.length > 0 && filteredAlbums.every(a => selectedIds.has(a.albumId))
isAllSelected(op) ==
  /\ Len(filteredAlbums(op)) > 0
  /\ AlbumIdsOf(filteredAlbums(op)) \subseteq op.selectedIds

\* Array.from(ids): the identifiers as an array, here in catalog order (the
\* results of the batch operations do not depend on the order)
RECURSIVE ArrayFrom(_, _)
ArrayFrom(ids, as) ==
  IF as = <<>> THEN <<>>
  ELSE IF Head(as).albumId \in ids THEN <<Head(as).albumId>> \o ArrayFrom(ids, Tail(as))
  ELSE ArrayFrom(ids, Tail(as))

\* the overview page is shown and no modal covers it
Overviewing ==
  /\ page.name = "overview"
  /\ ~overviewPage.showBatchModal
  /\ ~overviewPage.showDeleteModal

\* a step of the overview page that leaves the store alone
OverviewStep(name, op) ==
  /\ overviewPage' = op
  /\ prev' = Store
  /\ last' = [op |-> name, ids |-> {}, filtered |-> {}]
  /\ UNCHANGED <<albums, reviewStatus, albumMeta, logs, now, page, reviewPage>>

\* the status select
setFilterStatus(value) ==
  /\ Overviewing
  /\ value # overviewPage.filter.reviewStatus
  /\ OverviewStep("setFilterStatus",
       FilterChanged([overviewPage EXCEPT !.filter.reviewStatus = value, !.currentPage = 1], TRUE))

\* the search box
setSearchText(value) ==
  /\ Overviewing
  /\ value # overviewPage.filter.searchText
  /\ OverviewStep("setSearchText",
       FilterChanged([overviewPage EXCEPT !.filter.searchText = value, !.currentPage = 1], TRUE))

\* the start-date input
setStartDate(value) ==
  /\ Overviewing
  /\ value # overviewPage.filter.startDate
  /\ OverviewStep("overviewStep",
       FilterChanged([overviewPage EXCEPT !.filter.startDate = value, !.currentPage = 1], FALSE))

\* the end-date input
setEndDate(value) ==
  /\ Overviewing
  /\ value # overviewPage.filter.endDate
  /\ OverviewStep("overviewStep",
       FilterChanged([overviewPage EXCEPT !.filter.endDate = value, !.currentPage = 1], FALSE))

\* the 清空日期 button, shown while a date is set
clearDates ==
  /\ Overviewing
  /\ overviewPage.filter.startDate # {} \/ overviewPage.filter.endDate # {}
  /\ OverviewStep("overviewStep",
       FilterChanged([overviewPage EXCEPT !.filter.startDate = {}, !.filter.endDate = {},
                                          !.currentPage = 1], FALSE))

\* the pagination bar is rendered
PaginationShown == Overviewing /\ totalPages(overviewPage) > 1

\* the page-size select of the pagination bar
setPageSize(size) ==
  /\ PaginationShown
  /\ size # overviewPage.pageSize
  /\ OverviewStep("overviewStep", [overviewPage EXCEPT !.pageSize = size, !.currentPage = 1])

\* 首页
firstPage ==
  /\ PaginationShown
  /\ overviewPage.currentPage # 1
  /\ OverviewStep("firstPage", [overviewPage EXCEPT !.currentPage = 1])

\* 上一页
previousPage ==
  /\ PaginationShown
  /\ overviewPage.currentPage # 1
  /\ OverviewStep("previousPage",
       [overviewPage EXCEPT !.currentPage = Max(1, overviewPage.currentPage - 1)])

\* 下一页
nextPage ==
  /\ PaginationShown
  /\ overviewPage.currentPage # totalPages(overviewPage)
  /\ OverviewStep("nextPage",
       [overviewPage EXCEPT !.currentPage = Min(totalPages(overviewPage),
                                                overviewPage.currentPage + 1)])

\* 末页
lastPage ==
  /\ PaginationShown
  /\ overviewPage.currentPage # totalPages(overviewPage)
  /\ OverviewStep("lastPage", [overviewPage EXCEPT !.currentPage = totalPages(overviewPage)])

\* the select-all button and the header checkbox
handleSelectAll ==
  /\ Overviewing
  /\ Len(filteredAlbums(overviewPage)) > 0
  /\ OverviewStep("overviewStep",
       [overviewPage EXCEPT !.selectedIds = IF isAllSelected(overviewPage) THEN {}
                                            ELSE AlbumIdsOf(filteredAlbums(overviewPage))])

\* the checkbox of a row of the table
handleSelectOne(albumId) ==
  /\ Overviewing
  /\ albumId \in AlbumIdsOf(paginatedAlbums(overviewPage))
  /\ OverviewStep("overviewStep",
       [overviewPage EXCEPT !.selectedIds = IF albumId \in overviewPage.selectedIds
                                            THEN overviewPage.selectedIds \ {albumId}
                                            ELSE overviewPage.selectedIds \cup {albumId}])

\* the 批量抽卡 button, enabled while an unreviewed album is selected
handleBatchReview ==
  /\ Overviewing
  /\ SelectedUnreviewed(overviewPage) # {}
  /\ OverviewStep("overviewStep", [overviewPage EXCEPT !.showBatchModal = TRUE])

closeBatchModal ==
  /\ page.name = "overview"
  /\ overviewPage.showBatchModal
  /\ OverviewStep("closeBatchModal", [overviewPage EXCEPT !.showBatchModal = FALSE])

\* the page state after setSelectedIds(new Set()), the modal closed, and loadData
AfterBatch(op, as, allStatus, meta) ==
  [op EXCEPT !.albums = as, !.reviewStatus = allStatus, !.albumMeta = meta,
             !.selectedIds = {}, !.showBatchModal = FALSE, !.showDeleteModal = FALSE]

\* the confirm button of the batch modal
confirmBatchReview ==
  /\ page.name = "overview"
  /\ overviewPage.showBatchModal
  /\ AppendedSoFar < MaxBatches
  /\ LET idsToReview == ArrayFrom(SelectedUnreviewed(overviewPage), overviewPage.albums)
         newStatus == RejectAll(reviewStatus, idsToReview, albums)
     IN /\ reviewStatus' = newStatus
        /\ logs' = LogsAfterAppend(logs, "batchReview", Len(idsToReview), now)
        /\ overviewPage' = AfterBatch(overviewPage, albums, newStatus, albumMeta)
        /\ prev' = Store
        /\ last' = [op |-> "confirmBatchReview", ids |-> overviewPage.selectedIds,
                    filtered |-> AlbumIdsOf(filteredAlbums(overviewPage))]
        /\ UNCHANGED <<albums, albumMeta, now, page, reviewPage>>

\* the 导出选中 button, enabled while something is selected
handleExportSelected ==
  /\ Overviewing
  /\ overviewPage.selectedIds # {}
  /\ AppendedSoFar < MaxBatches
  /\ logs' = LogsAfterAppend(logs, "exportSelected", Cardinality(overviewPage.selectedIds), now)
  /\ prev' = Store
  /\ last' = [op |-> "handleExportSelected", ids |-> overviewPage.selectedIds,
              filtered |-> AlbumIdsOf(filteredAlbums(overviewPage))]
  /\ UNCHANGED <<albums, reviewStatus, albumMeta, now, ui>>

\* the 批量删除 button, enabled while something is selected
handleDeleteSelected ==
  /\ Overviewing
  /\ overviewPage.selectedIds # {}
  /\ OverviewStep("overviewStep", [overviewPage EXCEPT !.showDeleteModal = TRUE])

closeDeleteModal ==
  /\ page.name = "overview"
  /\ overviewPage.showDeleteModal
  /\ OverviewStep("closeDeleteModal", [overviewPage EXCEPT !.showDeleteModal = FALSE])

\* the confirm button of the delete modal
confirmDeleteSelected ==
  /\ page.name = "overview"
  /\ overviewPage.showDeleteModal
  /\ AppendedSoFar < MaxBatches
  /\ LET deleteSet == overviewPage.selectedIds
         newAlbums == RemainingAlbums(albums, deleteSet)
         newStatus == RemainingStatus(reviewStatus, deleteSet)
         newMeta == RemainingMeta(albumMeta, deleteSet)
     IN /\ albums' = newAlbums
        /\ reviewStatus' = newStatus
        /\ albumMeta' = newMeta
        /\ logs' = LogsAfterAppend(logs, "batchDelete", Cardinality(deleteSet), now)
        /\ overviewPage' = AfterBatch(overviewPage, newAlbums, newStatus, newMeta)
        /\ prev' = Store
        /\ last' = [op |-> "confirmDeleteSelected", ids |-> deleteSet,
                    filtered |-> AlbumIdsOf(filteredAlbums(overviewPage))]
        /\ UNCHANGED <<now, page, reviewPage>>

\* the overview page over the catalog: the last album was imported a day
\* after the others, nothing is reviewed yet
OverviewInit ==
  /\ albums = OverviewCatalog
  /\ reviewStatus = EmptyRecord
  /\ albumMeta = [id \in AlbumIdsOf(OverviewCatalog) |->
                    [albumId |-> id,
                     importedAt |-> IF id = OverviewId(OverviewAlbums) THEN DayStart(1) ELSE 0]]
  /\ logs = <<>>
  /\ now = DayStart(1)
  /\ prev = Store
  /\ last = [op |-> "overviewStep", ids |-> {}, filtered |-> {}]
  /\ page = GoOverview(albums, reviewStatus, albumMeta).page
  /\ reviewPage = GoOverview(albums, reviewStatus, albumMeta).reviewPage
  /\ overviewPage = GoOverview(albums, reviewStatus, albumMeta).overviewPage

FilterStatus == \E value \in {"All", Reviewed, Unreviewed} : setFilterStatus(value)

SearchText == \E value \in SearchTexts : setSearchText(value)

StartDate == \E value \in {{}} \cup {{day} : day \in StartDays} : setStartDate(value)

EndDate == \E value \in {{}} \cup {{day} : day \in EndDays} : setEndDate(value)

PageSize == \E size \in PageSizes : setPageSize(size)

SelectOne == \E albumId \in TickIds : handleSelectOne(albumId)

OverviewNext ==
  \/ FilterStatus
  \/ SearchText
  \/ StartDate
  \/ EndDate
  \/ clearDates
  \/ PageSize
  \/ firstPage
  \/ previousPage
  \/ nextPage
  \/ lastPage
  \/ handleSelectAll
  \/ SelectOne
  \/ handleBatchReview
  \/ closeBatchModal
  \/ confirmBatchReview
  \/ handleExportSelected
  \/ handleDeleteSelected
  \/ closeDeleteModal
  \/ confirmDeleteSelected

SpecOverview == OverviewInit /\ [][OverviewNext]_vars

----------------------------------------------------------------------------
(* Properties.  prev is the store before the operation named by last, the  *)
(* variables albums, reviewStatus and albumMeta are the store after it.    *)

\* identifiers of a batch of rows
BatchIds(newAlbums) == {newAlbums[i].albumId : i \in 1..Len(newAlbums)}

\* albums that were Reviewed before the last operation
ReviewedBefore == {id \in AlbumIdsOf(prev.albums) : IsReviewed(prev.reviewStatus, id)}

\* the album, status and meta rows of id in a store, each as an optional
RowsOf(store, id) ==
  [album |-> FindAlbum(store.albums, id),
   status |-> StatusOf(store.reviewStatus, id),
   meta |-> IF id \in DOMAIN store.albumMeta THEN {store.albumMeta[id]} ELSE {}]

\* C1: in every reachable state the albumIds keyed in ReviewStatus and in
\* ImportMeta are both subsets of the albumIds present in Albums.
C1_SubordinateKeysInAlbums ==
  /\ DOMAIN reviewStatus \subseteq AlbumIdsOf(albums)
  /\ DOMAIN albumMeta \subseteq AlbumIdsOf(albums)

\* an import has just dropped an album that had a status row and a meta row
C1_Witness ==
  /\ last.op = "importAlbums"
  /\ \E id \in DOMAIN prev.reviewStatus \cap DOMAIN prev.albumMeta : id \notin AlbumIdsOf(albums)
  /\ albums # <<>>

\* C2: a Reviewed album whose albumId occurs in the incoming batch keeps its
\* Album, ReviewStatus and ImportMeta rows exactly as before the import.
C2_ReviewedRowsSurviveReimport ==
  last.op = "importAlbums" =>
    \A id \in ReviewedBefore \cap BatchIds(last.newAlbums) :
      RowsOf(Store, id) = RowsOf(prev, id)

\* C3: a Reviewed album whose albumId does not occur in the incoming batch
\* keeps its Album, ReviewStatus and ImportMeta rows, all still present.
C3_ReviewedOutsideBatchUntouched ==
  last.op = "importAlbums" =>
    \A id \in ReviewedBefore \ BatchIds(last.newAlbums) :
      /\ RowsOf(Store, id) = RowsOf(prev, id)
      /\ RowsOf(Store, id).album # {}
      /\ RowsOf(Store, id).status # {}
      /\ RowsOf(Store, id).meta # {}

\* a later, non-empty import left a reviewed album with its older importedAt
C3_Witness ==
  /\ last.op = "importAlbums"
  /\ last.newAlbums # <<>>
  /\ \E id \in ReviewedBefore \ BatchIds(last.newAlbums) :
       /\ id \in DOMAIN albumMeta
       /\ albumMeta[id].importedAt < last.nowIso

\* the last row of the batch that carries id
LastRowFor(newAlbums, id) ==
  newAlbums[CHOOSE i \in 1..Len(newAlbums) :
              /\ newAlbums[i].albumId = id
              /\ \A j \in (i + 1)..Len(newAlbums) : newAlbums[j].albumId # id]

\* C4: every batch identifier that was not Reviewed before has, after the
\* import, the last incoming row of that identifier as its Album row and the
\* timestamp of this import as its importedAt.
C4_LastIncomingRowWins ==
  last.op = "importAlbums" =>
    \A id \in BatchIds(last.newAlbums) \ ReviewedBefore :
      /\ FindAlbum(albums, id) = {LastRowFor(last.newAlbums, id)}
      /\ id \in DOMAIN albumMeta
      /\ albumMeta[id] = [albumId |-> id, importedAt |-> last.nowIso]

\* a batch repeating an identifier with two contents replaced an unreviewed
\* album of an earlier import
C4_Witness ==
  /\ last.op = "importAlbums"
  /\ \E i, j \in 1..Len(last.newAlbums) :
       /\ i < j
       /\ last.newAlbums[i].albumId = last.newAlbums[j].albumId
       /\ last.newAlbums[i] # last.newAlbums[j]
       /\ last.newAlbums[i].albumId \in AlbumIdsOf(prev.albums) \ ReviewedBefore
       /\ FindAlbum(prev.albums, last.newAlbums[i].albumId) # {last.newAlbums[j]}
       /\ prev.albumMeta[last.newAlbums[i].albumId].importedAt < last.nowIso

\* positions of the batch whose identifier is a retained (Reviewed) album or
\* occurs earlier in the batch
CollidingPositions(newAlbums) ==
  {i \in 1..Len(newAlbums) :
     \/ newAlbums[i].albumId \in ReviewedBefore
     \/ \E j \in 1..(i - 1) : newAlbums[j].albumId = newAlbums[i].albumId}

\* C5: imported is the length of the incoming array and duplicates is the
\* number of incoming rows whose identifier was already in the merged set
\* (retained rows plus earlier rows of the batch) when the row was applied.
C5_ImportCounts ==
  last.op = "importAlbums" =>
    /\ last.result.imported = Len(last.newAlbums)
    /\ last.result.duplicates = Cardinality(CollidingPositions(last.newAlbums))

\* two rows with the same new identifier: imported = 2, duplicates = 1
C5_Witness ==
  /\ last.op = "importAlbums"
  /\ Len(last.newAlbums) = 2
  /\ last.newAlbums[1].albumId = last.newAlbums[2].albumId
  /\ last.newAlbums[1].albumId \notin AlbumIdsOf(prev.albums)
  /\ last.result = [imported |-> 2, duplicates |-> 1]

\* C6: no two rows of Albums share an albumId.
C6_AlbumIdsUnique ==
  \A i, j \in 1..Len(albums) : albums[i].albumId = albums[j].albumId => i = j

\* an import whose batch repeats an identifier, next to another album
C6_Witness ==
  /\ last.op = "importAlbums"
  /\ Len(last.newAlbums) > Cardinality(BatchIds(last.newAlbums))
  /\ Len(albums) >= 2

\* C7 as stated: an import of the empty array returns 0/0 and leaves the
\* three collections as they were.
C7_EmptyImportIsNoOp ==
  (last.op = "importAlbums" /\ last.newAlbums = <<>>) =>
    /\ last.result = [imported |-> 0, duplicates |-> 0]
    /\ Store = prev

\* the albums of as whose identifier is in keep, in the order of as
RECURSIVE Restrict(_, _)
Restrict(as, keep) ==
  IF as = <<>> THEN <<>>
  ELSE IF Head(as).albumId \in keep THEN <<Head(as)>> \o Restrict(Tail(as), keep)
  ELSE Restrict(Tail(as), keep)

\* C7 amended: an import of the empty array returns 0/0 and keeps exactly the
\* albums that were Reviewed, in their order, with their status and meta
\* rows unchanged; every other album is removed with its status and meta rows.
C7_EmptyImportKeepsReviewedOnly ==
  (last.op = "importAlbums" /\ last.newAlbums = <<>>) =>
    /\ last.result = [imported |-> 0, duplicates |-> 0]
    /\ albums = Restrict(prev.albums, ReviewedBefore)
    /\ reviewStatus = [id \in ReviewedBefore |-> prev.reviewStatus[id]]
    /\ albumMeta = [id \in ReviewedBefore |-> prev.albumMeta[id]]

\* an empty import on a store holding a reviewed and an unreviewed album
C7_Witness ==
  /\ last.op = "importAlbums"
  /\ last.newAlbums = <<>>
  /\ ReviewedBefore # {}
  /\ AlbumIdsOf(prev.albums) \ ReviewedBefore # {}
  /\ Len(albums) < Len(prev.albums)

\* C8: updateStatus on an albumId without an Album row fails and leaves the
\* three collections as they were.
C8_UpdateMissingAlbumFails ==
  (last.op = "updateAlbumReviewStatus" /\ FindAlbum(prev.albums, last.albumId) = {}) =>
    /\ last.result = "Error"
    /\ Store = prev

\* a failed update while status rows of other albums exist
C8_Witness ==
  /\ last.op = "updateAlbumReviewStatus"
  /\ FindAlbum(prev.albums, last.albumId) = {}
  /\ last.result = "Error"
  /\ DOMAIN prev.reviewStatus # {}

\* the value updateStatus is to write for a field: the partial's if given,
\* else the earlier row's, else the default
ExpectedField(given, hadRow, earlier, default) ==
  IF given # {} THEN given ELSE IF hadRow THEN earlier ELSE default

\* C9: updateStatus on an existing album succeeds, also on a Reviewed row,
\* and writes partial-else-existing-else-default in each of the four fields;
\* the rows of all other albums are unchanged.
C9_UpdateWritesMergedRow ==
  (last.op = "updateAlbumReviewStatus" /\ FindAlbum(prev.albums, last.albumId) # {}) =>
    LET id == last.albumId
        hadRow == id \in DOMAIN prev.reviewStatus
        old == prev.reviewStatus[id]
    IN /\ last.result = "ok"
       /\ id \in DOMAIN reviewStatus
       /\ {reviewStatus[id].reviewProgress} =
            ExpectedField(last.status.reviewProgress, hadRow, {old.reviewProgress}, {0})
       /\ {reviewStatus[id].reviewStatus} =
            ExpectedField(last.status.reviewStatus, hadRow, {old.reviewStatus}, {Unreviewed})
       /\ reviewStatus[id].selectedImageIndex =
            ExpectedField(last.status.selectedImageIndex, hadRow, old.selectedImageIndex, {})
       /\ reviewStatus[id].selectedImageLink =
            ExpectedField(last.status.selectedImageLink, hadRow, old.selectedImageLink, {})
       /\ DOMAIN reviewStatus = DOMAIN prev.reviewStatus \cup {id}
       /\ \A other \in DOMAIN prev.reviewStatus \ {id} :
            reviewStatus[other] = prev.reviewStatus[other]
       /\ albums = prev.albums
       /\ albumMeta = prev.albumMeta

\* a reject written over an accepted (Reviewed) row: the link and the
\* progress come from the partial, the image index from the earlier row
C9_Witness ==
  /\ last.op = "updateAlbumReviewStatus"
  /\ last.result = "ok"
  /\ IsReviewed(prev.reviewStatus, last.albumId)
  /\ prev.reviewStatus[last.albumId].reviewProgress = 1
  /\ prev.reviewStatus[last.albumId].selectedImageIndex # {}
  /\ last.status.selectedImageIndex = {}
  /\ last.status.reviewProgress = {0}
  /\ reviewStatus[last.albumId].selectedImageLink = {RejectedLink}

\* C10: after a successful updateStatus the albumName, bookName and category
\* of the written row are those of the current Album row.
C10_NamesFromCurrentAlbum ==
  (last.op = "updateAlbumReviewStatus" /\ last.result = "ok") =>
    \A a \in FindAlbum(albums, last.albumId) :
      /\ last.albumId \in DOMAIN reviewStatus
      /\ reviewStatus[last.albumId].albumName = a.albumName
      /\ reviewStatus[last.albumId].bookName = a.bookName
      /\ reviewStatus[last.albumId].category = a.category

\* the earlier status row carried the names of an album row since overwritten
C10_Witness ==
  /\ last.op = "updateAlbumReviewStatus"
  /\ last.result = "ok"
  /\ last.albumId \in DOMAIN prev.reviewStatus
  /\ \E a \in FindAlbum(albums, last.albumId) :
       /\ prev.reviewStatus[last.albumId].albumName # a.albumName
       /\ prev.reviewStatus[last.albumId].category # a.category
       /\ reviewStatus[last.albumId].albumName = a.albumName

----------------------------------------------------------------------------
(* batchUpdateReviewStatus *)

\* C11: batchReject applied once more to the same identifiers yields the
\* same ReviewStatus collection, and a row that was already Reviewed
\* (accepted or rejected) is unchanged by batchReject.
C11_BatchRejectIdempotent ==
  last.op = "batchUpdateReviewStatus" =>
    /\ RejectAll(reviewStatus, last.albumIds, albums) = reviewStatus
    /\ \A id \in DOMAIN prev.reviewStatus :
         IsReviewed(prev.reviewStatus, id) => /\ id \in DOMAIN reviewStatus
                                              /\ reviewStatus[id] = prev.reviewStatus[id]

\* one call that met an accepted album and rejected an unreviewed one
C11_Witness ==
  /\ last.op = "batchUpdateReviewStatus"
  /\ \E id \in SetOf(last.albumIds) :
       /\ IsReviewed(prev.reviewStatus, id)
       /\ prev.reviewStatus[id].selectedImageIndex # {}
       /\ reviewStatus[id].selectedImageLink # {RejectedLink}
  /\ \E id \in SetOf(last.albumIds) :
       /\ ~IsReviewed(prev.reviewStatus, id)
       /\ IsReviewed(reviewStatus, id)

\* the requested identifiers batchReject is to write: stored and not Reviewed
RejectTargets ==
  {id \in SetOf(last.albumIds) :
     /\ id \in AlbumIdsOf(prev.albums)
     /\ ~IsReviewed(prev.reviewStatus, id)}

\* C12: batchReject changes exactly the rows of the requested identifiers
\* that have an Album and are not Reviewed, each to Reviewed, progress 0, no
\* image index and the rejected sentinel; identifiers without an Album get
\* no row; Albums and ImportMeta are not modified.
C12_BatchRejectWritesOnlyTargets ==
  last.op = "batchUpdateReviewStatus" =>
    /\ DOMAIN reviewStatus = DOMAIN prev.reviewStatus \cup RejectTargets
    /\ \A id \in RejectTargets :
         /\ reviewStatus[id].reviewStatus = Reviewed
         /\ reviewStatus[id].reviewProgress = 0
         /\ reviewStatus[id].selectedImageIndex = {}
         /\ reviewStatus[id].selectedImageLink = {RejectedLink}
    /\ \A id \in DOMAIN prev.reviewStatus \ RejectTargets :
         reviewStatus[id] = prev.reviewStatus[id]
    /\ albums = prev.albums
    /\ albumMeta = prev.albumMeta

\* a request naming an album that had an Unreviewed row and an identifier
\* that is not stored
C12_Witness ==
  /\ last.op = "batchUpdateReviewStatus"
  /\ \E id \in RejectTargets : id \in DOMAIN prev.reviewStatus
  /\ \E id \in SetOf(last.albumIds) : id \notin AlbumIdsOf(albums) /\ id \notin DOMAIN reviewStatus

----------------------------------------------------------------------------
(* deleteAlbums *)

\* positions of a request that hold the first occurrence of their identifier
FirstOccurrences(ids) ==
  {i \in 1..Len(ids) : \A j \in 1..(i - 1) : ids[j] # ids[i]}

\* C14: deleteRecords returns deleted = the number of distinct identifiers
\* of the request, stored or not, and 0 for the empty request.
C14_DeletedCountsDistinctRequested ==
  last.op = "deleteAlbums" =>
    last.result.deleted = Cardinality(FirstOccurrences(last.albumIdsToDelete))

\* a request repeating one identifier that is not stored: one is reported
\* deleted and no album row was removed
C14_Witness ==
  /\ last.op = "deleteAlbums"
  /\ Len(last.albumIdsToDelete) = 2
  /\ last.albumIdsToDelete[1] = last.albumIdsToDelete[2]
  /\ last.albumIdsToDelete[1] \notin AlbumIdsOf(prev.albums)
  /\ prev.albums # <<>>
  /\ Len(albums) = Len(prev.albums)
  /\ last.result.deleted = 1

\* the 1-based place of a stored identifier in the catalog order
PlaceOf(as, id) == CHOOSE i \in 1..Len(as) : as[i].albumId = id

\* C13: deleteRecords removes exactly the requested identifiers from the
\* three collections, leaves every row of every other identifier unchanged,
\* keeps the relative catalog order of the remaining albums, and changes
\* nothing for an empty request.
C13_DeleteRemovesExactlyRequested ==
  last.op = "deleteAlbums" =>
    LET requested == SetOf(last.albumIdsToDelete)
        others == (AlbumIdsOf(prev.albums) \cup DOMAIN prev.reviewStatus
                     \cup DOMAIN prev.albumMeta) \ requested
    IN /\ AlbumIdsOf(albums) \cap requested = {}
       /\ DOMAIN reviewStatus \cap requested = {}
       /\ DOMAIN albumMeta \cap requested = {}
       /\ \A id \in others : RowsOf(Store, id) = RowsOf(prev, id)
       /\ Len(albums) = Cardinality(AlbumIdsOf(prev.albums) \ requested)
       /\ \A a, b \in AlbumIdsOf(albums) :
            PlaceOf(albums, a) < PlaceOf(albums, b)
              <=> PlaceOf(prev.albums, a) < PlaceOf(prev.albums, b)
       /\ last.albumIdsToDelete = <<>> => Store = prev

\* the middle album of three, which had a status row, was deleted and the
\* two others, one of them with a status row, remain
C13_Witness ==
  /\ last.op = "deleteAlbums"
  /\ Len(prev.albums) = 3
  /\ SetOf(last.albumIdsToDelete) = {prev.albums[2].albumId}
  /\ prev.albums[2].albumId \in DOMAIN prev.reviewStatus
  /\ Len(albums) = 2
  /\ DOMAIN reviewStatus # {}

----------------------------------------------------------------------------
(* Review navigator *)

\* stored albums whose status row is absent or Unreviewed
UnreviewedIds ==
  {id \in AlbumIdsOf(albums) :
     id \notin DOMAIN reviewStatus \/ reviewStatus[id].reviewStatus # Reviewed}

\* the identifier of ids that comes first in the catalog order, if any
FirstOf(ids) ==
  {id \in ids : \A other \in ids : PlaceOf(albums, id) <= PlaceOf(albums, other)}

\* C15: nextUnreviewed(currentId) is null if no album is unreviewed, the
\* first unreviewed album if currentId is not an unreviewed album, and
\* otherwise the unreviewed album that follows currentId, null if there is
\* none; it is never a Reviewed album and never currentId.
C15_NextUnreviewed ==
  last.op = "getNextUnreviewedAlbumId" =>
    /\ last.result =
         IF last.current \notin UnreviewedIds
         THEN FirstOf(UnreviewedIds)
         ELSE FirstOf({id \in UnreviewedIds :
                         PlaceOf(albums, id) > PlaceOf(albums, last.current)})
    /\ last.result \subseteq UnreviewedIds \ {last.current}

\* the cases of C15 with three albums: the follower skips a Reviewed album
C15_Witness ==
  /\ last.op = "getNextUnreviewedAlbumId"
  /\ Len(albums) = 3
  /\ last.current = albums[1].albumId
  /\ last.current \in UnreviewedIds
  /\ IsReviewed(reviewStatus, albums[2].albumId)
  /\ last.result = {albums[3].albumId}

\* C16: previous / next are the albums right before / after currentId in
\* the full Albums order, whatever their review status, and null at the
\* first album, at the last album, and for a currentId that is not stored.
C16_AdjacentByCatalogOrder ==
  last.op = "adjacentByCatalogOrder" =>
    IF last.current \in AlbumIdsOf(albums)
    THEN /\ last.previous = {id \in AlbumIdsOf(albums) :
                               PlaceOf(albums, id) = PlaceOf(albums, last.current) - 1}
         /\ last.next = {id \in AlbumIdsOf(albums) :
                           PlaceOf(albums, id) = PlaceOf(albums, last.current) + 1}
    ELSE last.previous = {} /\ last.next = {}

\* the middle album of three, between a Reviewed and an unreviewed one
C16_Witness ==
  /\ last.op = "adjacentByCatalogOrder"
  /\ Len(albums) = 3
  /\ last.current = albums[2].albumId
  /\ last.previous = {albums[1].albumId}
  /\ last.next = {albums[3].albumId}
  /\ IsReviewed(reviewStatus, albums[1].albumId)
  /\ ~IsReviewed(reviewStatus, albums[3].albumId)

\* P: the 1-based place of id among the unreviewed albums, 0 if absent
PlaceAmongUnreviewed(id) ==
  IF id \in UnreviewedIds
  THEN Cardinality({u \in UnreviewedIds : PlaceOf(albums, u) <= PlaceOf(albums, id)})
  ELSE 0

Clamp(lo, hi, x) == IF x < lo THEN lo ELSE IF x > hi THEN hi ELSE x

\* C17: the displayed count is clamp(0, T, (T - U) + P), lies in 0..T, and
\* the display is 0/0 when T = 0.
C17_ProgressClamp ==
  (last.op = "overallProgressText" /\ last.albumId # {}) =>
    LET T == Len(albums)
        U == Cardinality(UnreviewedIds)
        P == PlaceAmongUnreviewed(The(last.albumId))
    IN /\ last.result = <<Clamp(0, T, (T - U) + P), T>>
       /\ last.result[1] \in 0..T
       /\ T = 0 => last.result = <<0, 0>>

\* the second of two unreviewed albums next to a Reviewed one: 3/3
C17_Witness ==
  /\ last.op = "overallProgressText"
  /\ last.albumId # {}
  /\ Len(albums) = 3
  /\ Cardinality(UnreviewedIds) = 2
  /\ PlaceAmongUnreviewed(The(last.albumId)) = 2
  /\ last.result = <<3, 3>>

----------------------------------------------------------------------------
(* Operation log *)

RepositoryOps ==
  {"importAlbums", "updateAlbumReviewStatus", "batchUpdateReviewStatus",
   "deleteAlbums", "clearAllData"}

\* the log holds at most LogLimit entries, newest first, and after an append
\* it is the new entry followed by the earlier entries in their order, cut
\* after LogLimit entries
LogAppendedInFront ==
  /\ Len(logs) <= LogLimit
  /\ \A i \in 1..(Len(logs) - 1) : logs[i].id >= logs[i + 1].id
  /\ last.op = "addOperationLog" =>
       /\ Len(logs) = IF Len(last.before) < LogLimit THEN Len(last.before) + 1 ELSE LogLimit
       /\ logs[1].operation = last.operation
       /\ logs[1].result = last.result
       /\ logs[1].id = last.time
       /\ \A i \in 2..Len(logs) : logs[i] = last.before[i - 1]

\* C18: the log holds at most 1000 entries newest-first; an append puts the
\* new entry at position 0, keeps the order of the earlier entries and
\* discards only the oldest beyond 1000; no repository operation removes
\* or alters a log entry.
C18_LogBoundedNewestFirst ==
  /\ []LogAppendedInFront
  /\ [][last'.op \in RepositoryOps => logs' = logs]_vars

\* an append to a full log discarded its oldest entry, and a repository
\* operation has run before on the non-empty log
C18_Witness ==
  /\ last.op = "addOperationLog"
  /\ Len(last.before) = LogLimit
  /\ Len(logs) = LogLimit
  /\ logs[1].id >= 0
  /\ logs[LogLimit] = last.before[LogLimit - 1]
  /\ albums # <<>>

----------------------------------------------------------------------------
(* Failing store writes *)

\* C20: when a write fails in the middle of importBatch or deleteRecords,
\* the writes that succeeded before it stay (Albums, then ReviewStatus), the
\* later collections keep their old contents and the failure reaches the
\* caller, so ReviewStatus or ImportMeta can hold keys that are not in
\* Albums; as long as no write has failed they never do.
C20_PartialWritesPersist ==
  /\ NoFailure => /\ DOMAIN reviewStatus \subseteq AlbumIdsOf(albums)
                  /\ DOMAIN albumMeta \subseteq AlbumIdsOf(albums)
  /\ last.op = "importAlbums:StorageError" =>
       LET merged == ImportMerge(last.newAlbums, prev.albums, prev.reviewStatus,
                                 prev.albumMeta, last.nowIso)
       IN /\ albums = IF last.written >= 1 THEN merged.albumMap ELSE prev.albums
          /\ reviewStatus = IF last.written >= 2
                            THEN RecordFilter(prev.reviewStatus, AlbumIdsOf(merged.albumMap))
                            ELSE prev.reviewStatus
          /\ albumMeta = prev.albumMeta
  /\ last.op = "deleteAlbums:StorageError" =>
       LET requested == SetOf(last.albumIdsToDelete)
       IN /\ AlbumIdsOf(albums) =
               IF last.written >= 1 THEN AlbumIdsOf(prev.albums) \ requested
               ELSE AlbumIdsOf(prev.albums)
          /\ DOMAIN reviewStatus =
               IF last.written >= 2 THEN DOMAIN prev.reviewStatus \ requested
               ELSE DOMAIN prev.reviewStatus
          /\ albumMeta = prev.albumMeta

\* the write of ReviewStatus failed after Albums was written: the status
\* and meta rows of a dropped album are left without their album
C20_Witness ==
  /\ last.op = "importAlbums:StorageError"
  /\ last.written = 1
  /\ albums # prev.albums
  /\ \E id \in DOMAIN reviewStatus \cap DOMAIN albumMeta : id \notin AlbumIdsOf(albums)

----------------------------------------------------------------------------
(* CSV validation *)

\* the file fails validation: fewer non-blank lines than a header and one
\* data row, a required column missing from the header, a data row whose
\* number of cells differs from the header's, or a data row whose album
\* identifier is empty
FailsValidation(file) ==
  LET rows == NonBlankLines(file.lines)
  IN \/ Len(rows) < 2
     \/ \E k \in 1..Len(CSV_HEADERS) :
          \A j \in 1..Len(rows[1]) : rows[1][j] # CSV_HEADERS[k]
     \/ \E i \in 2..Len(rows) : Len(rows[i]) # Len(rows[1])
     \/ \E i \in 2..Len(rows) : \E j \in 1..Len(rows[1]) :
          /\ rows[1][j] = "albumId"
          /\ \A h \in 1..(j - 1) : rows[1][h] # "albumId"
          /\ j <= Len(rows[i])
          /\ Trim(rows[i][j]) = ""

\* C19: when the selected CSV file fails validation or parses to zero
\* albums, importAlbums is not invoked and Albums, ReviewStatus and
\* ImportMeta are what they were before the file was selected; one invalid
\* row rejects the whole file.
C19_InvalidCsvLeavesStore ==
  (/\ last.op = "handleFileSelect"
   /\ \/ FailsValidation(last.file)
      \/ (parseCSV(last.file.lines).ok /\ parseCSV(last.file.lines).albums = <<>>)) =>
    /\ ~last.invoked
    /\ last.message.kind = "error"
    /\ Store = prev

\* a file whose first data row is a new valid album and whose second data
\* row has no identifier was rejected as a whole, with the row number, on a
\* store that holds a reviewed album
C19_Witness ==
  /\ last.op = "handleFileSelect"
  /\ EndsWith(last.file.name, DotCsv)
  /\ last.file.lines = <<CSV_HEADERS, LineOf("a2"), LineOf(" ")>>
  /\ last.message.error = <<"EmptyAlbumId", 3>>
  /\ ~last.invoked
  /\ FindAlbum(albums, "a2") = {}
  /\ IsReviewed(reviewStatus, "a1")
  /\ Store = prev

----------------------------------------------------------------------------
(* Import meta rows, catalog after an import, rejected rows, duplicates *)

\* C22: in every state reachable from the empty store there is exactly one
\* ImportMeta row per album: the keys of ImportMeta are the albumIds of
\* Albums and each row's albumId field is its key.
C22_OneMetaRowPerAlbum ==
  /\ DOMAIN albumMeta = AlbumIdsOf(albums)
  /\ \A id \in DOMAIN albumMeta : albumMeta[id].albumId = id

\* a delete has just removed one of two albums together with its meta row
C22_Witness ==
  /\ last.op = "deleteAlbums"
  /\ Len(prev.albums) = 2
  /\ Len(albums) = 1
  /\ DOMAIN prev.albumMeta # DOMAIN albumMeta
  /\ DOMAIN albumMeta # {}

\* identifiers of ids, each at its first occurrence, in order
RECURSIVE DistinctInOrder(_, _)
DistinctInOrder(ids, seen) ==
  IF ids = <<>> THEN <<>>
  ELSE IF Head(ids) \in seen THEN DistinctInOrder(Tail(ids), seen)
  ELSE <<Head(ids)>> \o DistinctInOrder(Tail(ids), seen \cup {Head(ids)})

\* the albumIds of a catalog in its order
IdsInOrder(as) == [i \in 1..Len(as) |-> as[i].albumId]

\* C23: after importBatch(batch) the albumIds of Albums are the albums that
\* were Reviewed before the call and the identifiers of the batch; every
\* other stored album is gone with its ReviewStatus and ImportMeta rows; the
\* order is the reviewed albums in their previous order, then the new
\* identifiers in order of first occurrence in the batch.
C23_CatalogAfterImport ==
  last.op = "importAlbums" =>
    LET batchIds == BatchIds(last.newAlbums)
        retained == IdsInOrder(Restrict(prev.albums, ReviewedBefore))
    IN /\ AlbumIdsOf(albums) = ReviewedBefore \cup batchIds
       /\ \A id \in AlbumIdsOf(prev.albums) \ (ReviewedBefore \cup batchIds) :
            /\ id \notin AlbumIdsOf(albums)
            /\ id \notin DOMAIN reviewStatus
            /\ id \notin DOMAIN albumMeta
       /\ IdsInOrder(albums) =
            retained \o DistinctInOrder(IdsInOrder(last.newAlbums), ReviewedBefore)

\* the import moved an unreviewed album of the batch behind the reviewed
\* album that used to follow it
C23_Witness ==
  /\ last.op = "importAlbums"
  /\ IdsInOrder(prev.albums) = <<"a1", "a2">>
  /\ ReviewedBefore = {"a2"}
  /\ IdsInOrder(albums) = <<"a2", "a1">>

\* C24: a ReviewStatus row that records a rejection carries no
\* selectedImageIndex, also when an accepted album is rejected later.
C24_RejectedRowHasNoIndex ==
  \A id \in DOMAIN reviewStatus :
    reviewStatus[id].selectedImageLink = {RejectedLink} =>
      reviewStatus[id].selectedImageIndex = {}

\* C25: the duplicates count shown and logged after an import is the number
\* of incoming albums whose identifier was stored as an unreviewed album and
\* was overwritten by this import.
C25_DuplicatesCountOverwrittenUnreviewed ==
  (last.op = "handleFileSelect" /\ last.invoked) =>
    LET incoming == parseCSV(last.file.lines).albums
        overwritten == {i \in 1..Len(incoming) :
                          /\ incoming[i].albumId \in AlbumIdsOf(prev.albums)
                          /\ ~IsReviewed(prev.reviewStatus, incoming[i].albumId)}
    IN /\ last.message.duplicates = Cardinality(overwritten)
       /\ logs[1].result.duplicates = Cardinality(overwritten)

----------------------------------------------------------------------------
(* Export projection *)

\* C21: the export yields one row per requested identifier, in request
\* order, and leaves the store alone; a row's imageLink is the 'not
\* reviewed' marker exactly when its label is Unreviewed (album unknown,
\* status row absent or Unreviewed); for a Reviewed album it is the rejected
\* marker if the album was rejected, else the selected image's reference.
C21_ExportProjection ==
  last.op = "exportReviewResults" =>
    LET requested == IF last.filteredAlbumIds = {} THEN IdsInOrder(albums)
                     ELSE The(last.filteredAlbumIds)
        rows == last.results
    IN /\ Store = prev
       /\ Len(rows) = Len(requested)
       /\ \A i \in 1..Len(rows) :
            LET id == requested[i]
                status == StatusOf(reviewStatus, id)
                unreviewed == \/ id \notin AlbumIdsOf(albums)
                              \/ status = {}
                              \/ The(status).reviewStatus = Unreviewed
            IN /\ rows[i].albumId = id
               /\ rows[i].reviewStatus = (IF unreviewed THEN Unreviewed ELSE Reviewed)
               /\ (rows[i].imageLink = Unreviewed) <=> (rows[i].reviewStatus = Unreviewed)
               /\ ~unreviewed => rows[i].imageLink = The(The(status).selectedImageLink)

----------------------------------------------------------------------------
(* Changing a decision on the review page *)

\* the stored row of id is an accept with image index
AcceptedWith(id, index) ==
  /\ id \in DOMAIN reviewStatus
  /\ reviewStatus[id].reviewStatus = Reviewed
  /\ reviewStatus[id].selectedImageIndex = {index}
  /\ reviewStatus[id].selectedImageLink # {RejectedLink}

\* the stored row of id is a reject
RejectedRowOf(id) ==
  /\ id \in DOMAIN reviewStatus
  /\ reviewStatus[id].reviewStatus = Reviewed
  /\ reviewStatus[id].selectedImageLink = {RejectedLink}

\* the stored row of id is an accept with some image
AcceptedRowOf(id) == \E index \in Slots : AcceptedWith(id, index)

\* the reviewer can still take a decision in the model
CanDecide == AppendedSoFar < MaxAppends

\* C26: the decision of a Reviewed album can be changed on the review page:
\* an album accepted with image i gets a row with another image or a reject,
\* and a rejected album gets an accept, when the reviewer keeps trying.
C26_DecisionCanBeChanged ==
  \A id \in {RevisedId} :
    /\ \A index \in ImageClicks :
         (AcceptedWith(id, index) /\ CanDecide)
           ~> (~AcceptedWith(id, index) \/ ~CanDecide)
    /\ (RejectedRowOf(id) /\ CanDecide) ~> (AcceptedRowOf(id) \/ ~CanDecide)

\* on the review page a row that is Reviewed keeps its image index and its
\* link whatever the reviewer presses
ReviewedRowsAreFinal ==
  [][\A id \in DOMAIN reviewStatus :
       reviewStatus[id].reviewStatus = Reviewed =>
         /\ id \in DOMAIN reviewStatus'
         /\ reviewStatus'[id] = reviewStatus[id]]_vars

----------------------------------------------------------------------------
(* The reject loop *)

\* the overview page is shown and every album is Reviewed
AllReviewedOnOverview ==
  /\ page.name = "overview"
  /\ \A id \in AlbumIdsOf(albums) : IsReviewed(reviewStatus, id)

\* a confirmed reject goes to an album that is still unreviewed, or to the
\* overview when none is left, and a reject of an unreviewed album lowers
\* the unreviewed count by one
RejectStepsForward ==
  [][last'.op = "executeReject" =>
       /\ page'.name = "review" =>
            /\ page'.albumId # {last'.albumId}
            /\ IsUnreviewed(reviewStatus', The(page'.albumId))
       /\ page'.name = "overview" => unreviewedCount(albums', reviewStatus') = 0
       /\ page'.name \in {"review", "overview"}
       /\ IsReviewed(reviewStatus', last'.albumId)
       /\ IsUnreviewed(reviewStatus, last'.albumId) =>
            unreviewedCount(albums', reviewStatus') = unreviewedCount(albums, reviewStatus) - 1
       /\ ~IsUnreviewed(reviewStatus, last'.albumId) =>
            unreviewedCount(albums', reviewStatus') = unreviewedCount(albums, reviewStatus)]_vars

CanReject == page.name = "review" /\ reviewPage.selectedImageIndex = {}

----------------------------------------------------------------------------
(* Image load timeout *)

\* slot index of the album shown is 'loading'
SlotLoading(index) ==
  /\ page.name = "review"
  /\ reviewPage.imageLoadStatus[index] = "loading"

\* the timer leaves the store and a slot that is 'success' or 'error' alone
\* and turns a 'loading' slot into 'error'
TimeoutOnlyFailsLoadingSlot ==
  [][last'.op = "imageTimeout" =>
       /\ UNCHANGED <<albums, reviewStatus, albumMeta>>
       /\ reviewPage'.imageLoadStatus[last'.index] =
            IF reviewPage.imageLoadStatus[last'.index] = "loading" THEN "error"
            ELSE reviewPage.imageLoadStatus[last'.index]
       /\ \A other \in Slots \ {last'.index} :
            reviewPage'.imageLoadStatus[other] = reviewPage.imageLoadStatus[other]]_vars

\* C30: no image slot stays 'loading' for ever: when neither load nor error
\* arrives the timeout marks the slot 'error', without overriding 'success'
\* or 'error', also after a retry of a failed slot; the timeout never
\* modifies Albums, ReviewStatus or ImportMeta.
C30_NoSlotLoadsForever ==
  /\ \A index \in Slots : SlotLoading(index) ~> ~SlotLoading(index)
  /\ TimeoutOnlyFailsLoadingSlot


----------------------------------------------------------------------------
(* Overview page: the selection and the page number *)

\* the overview page state that is on screen
OnOverview == page.name = "overview"

SelectionCleanedByStatusAndSearch ==
  (OnOverview /\ last.op \in {"setFilterStatus", "setSearchText"})
    => overviewPage.selectedIds \subseteq AlbumIdsOf(filteredAlbums(overviewPage))

\* C29: on the overview page the page number stays in 1..max(1, totalPages),
\* so a filtered result that is not empty is never shown as an empty page
C29_CurrentPageInRange ==
  OnOverview =>
    /\ overviewPage.currentPage \in 1..Max(1, totalPages(overviewPage))
    /\ Len(filteredAlbums(overviewPage)) > 0 => Len(paginatedAlbums(overviewPage)) > 0

====
